---- MODULE Spec2Model ----
(***************************************************************************)
(* A model of src/main.py, the homework-board Telegram bot.                *)
(*                                                                         *)
(* A text is the sequence of its characters, each a string: "M", " ", "/". *)
(* A Cyrillic letter is written "c:" and its Latin transliteration         *)
(* ("c:ch" is the letter che), its capital "C:".  The fixed phrases the    *)
(* bot puts into a stored text, which no code parses, are one element      *)
(* each.  Python's None for a photo identifier is the string "None"; an    *)
(* absent text or caption is the empty sequence (both are falsy in every   *)
(* test the code makes).  Chat and user identifiers are strings: they are  *)
(* wider than the integers TLC has.                                        *)
(***************************************************************************)
EXTENDS Integers, Sequences, FiniteSets, TLC

\* ------------------------------------------------------------------------
\* Configuration (src/main.py 80-86)
\* ------------------------------------------------------------------------

TELEGRAM_CHAT_ID == {"-1002415770314", "-1002425817720", "6066445210", "-1002362627260"}

ADMIN_ID == {"6066445210"}

DEBUG_CHAT_ID == "-1002425817720"

\* ------------------------------------------------------------------------
\* Python string operations on sequences of atoms
\* ------------------------------------------------------------------------

Whitespace == {" ", "\t", "\n"}

QUOTE == "\""

LatinUpper == <<"A", "B", "C", "D", "E", "F", "G", "H", "I", "J", "K", "L", "M",
                "N", "O", "P", "Q", "R", "S", "T", "U", "V", "W", "X", "Y", "Z">>

LatinLower == <<"a", "b", "c", "d", "e", "f", "g", "h", "i", "j", "k", "l", "m",
                "n", "o", "p", "q", "r", "s", "t", "u", "v", "w", "x", "y", "z">>

CyrillicUpper == <<"C:a", "C:b", "C:v", "C:g", "C:d", "C:e", "C:yo", "C:zh", "C:z",
                   "C:i", "C:j", "C:k", "C:l", "C:m", "C:n", "C:o", "C:p", "C:r",
                   "C:s", "C:t", "C:u", "C:f", "C:h", "C:c", "C:ch", "C:sh", "C:sch",
                   "C:hard", "C:y", "C:soft", "C:eh", "C:yu", "C:ya">>

CyrillicLower == <<"c:a", "c:b", "c:v", "c:g", "c:d", "c:e", "c:yo", "c:zh", "c:z",
                   "c:i", "c:j", "c:k", "c:l", "c:m", "c:n", "c:o", "c:p", "c:r",
                   "c:s", "c:t", "c:u", "c:f", "c:h", "c:c", "c:ch", "c:sh", "c:sch",
                   "c:hard", "c:y", "c:soft", "c:eh", "c:yu", "c:ya">>

Digits == {"0", "1", "2", "3", "4", "5", "6", "7", "8", "9"}

Range(s) == {s[i] : i \in 1..Len(s)}

\* the upper-case letters, and the lower-case letter of each
UpperLetters == Range(LatinUpper) \cup Range(CyrillicUpper)

ToLower ==
    [c \in UpperLetters |->
        IF c \in Range(LatinUpper)
        THEN LatinLower[CHOOSE i \in 1..Len(LatinUpper) : LatinUpper[i] = c]
        ELSE CyrillicLower[CHOOSE i \in 1..Len(CyrillicUpper) : CyrillicUpper[i] = c]]

\* a lower() that leaves every character as typed
LowerChar_as_typed(c) == c

\* str.lower(), one character at a time
LowerChar(c) == IF c \in UpperLetters THEN ToLower[c] ELSE c

Lower(s) == [i \in 1..Len(s) |-> LowerChar(s[i])]

\* s[a:b] with 0-based Python bounds, 0 <= a, b clipped to len(s)
Slice(s, a, b) ==
    LET hi == IF b > Len(s) THEN Len(s) ELSE b
    IN  IF a >= hi THEN <<>> ELSE [i \in 1..(hi - a) |-> s[a + i]]

\* a strip that strips nothing
Strip_nothing(s) == s

\* str.strip(): leading and trailing whitespace removed
Strip(s) ==
    LET idx == {i \in 1..Len(s) : s[i] \notin Whitespace}
    IN  IF idx = {} THEN <<>>
        ELSE LET lo == CHOOSE i \in idx : \A j \in idx : i <= j
                 hi == CHOOSE i \in idx : \A j \in idx : j <= i
             IN  Slice(s, lo - 1, hi)

\* str.startswith(p)
StartsWith(s, p) == Len(s) >= Len(p) /\ Slice(s, 0, Len(p)) = p

\* str.endswith(p)
EndsWith(s, p) == Len(s) >= Len(p) /\ Slice(s, Len(s) - Len(p), Len(s)) = p

\* str.find(c, start): 0-based index of the first c at or after start, -1 if none
Find(s, c, start) ==
    LET idx == {i \in (start + 1)..Len(s) : s[i] = c}
    IN  IF idx = {} THEN -1
        ELSE (CHOOSE i \in idx : \A j \in idx : i <= j) - 1

\* str.split(' ', 1): at most one split, at the first space
SplitSpace1(s) ==
    LET k == Find(s, " ", 0)
    IN  IF k = -1 THEN <<s>> ELSE <<Slice(s, 0, k), Slice(s, k + 1, Len(s))>>

\* ------------------------------------------------------------------------
\* Program state
\* ------------------------------------------------------------------------

VARIABLES
    board_data,     \* the dict of homework, in insertion order: Seq([key, text, photo_id])
    muted_users,    \* the set of muted user ids
    user_states,    \* the dict user id -> [state, subject, bot_prompt_message_id]
    data_file,      \* the contents of board_data.json
    muted_file,     \* the contents of muted_users.json
    last,           \* the handler that ran last and the branch it took
    updates,        \* how many updates and console commands have been handled
    worker_pool,    \* the handler calls that a pool thread has begun and not ended
    query,          \* the last call of find_subject_in_message: its text and what it gave
    main_loop,      \* where the loop of lines 1125-1139 is, and the seconds left to sleep
    timers          \* the threads of delete_message_with_delay, in the order they began

vars == <<board_data, muted_users, user_states, data_file, muted_file, last, updates,
          worker_pool, query, main_loop, timers>>

\* ------------------------------------------------------------------------
\* board_data: a Python dict keeps its keys in insertion order
\* ------------------------------------------------------------------------

Keys(bd) == {bd[i].key : i \in 1..Len(bd)}

\* key in board_data
HasKey(bd, k) == k \in Keys(bd)

\* board_data[k]
Entry(bd, k) == LET i == CHOOSE i \in 1..Len(bd) : bd[i].key = k
                IN  [text |-> bd[i].text, photo_id |-> bd[i].photo_id]

\* board_data[k] = {"text": text, "photo_id": photo_id}: an existing key keeps
\* its place, a new key goes last
PutEntry(bd, k, text, photo_id) ==
    LET e == [key |-> k, text |-> text, photo_id |-> photo_id]
    IN  IF HasKey(bd, k)
        THEN [i \in 1..Len(bd) |-> IF bd[i].key = k THEN e ELSE bd[i]]
        ELSE Append(bd, e)

\* a delete that empties the dict
DelEntry_clear(bd, k) == <<>>

\* del board_data[k]
DelEntry(bd, k) == SelectSeq(bd, LAMBDA e : e.key # k)

\* ------------------------------------------------------------------------
\* The two JSON files.  A file is absent, or holds a complete JSON document
\* (valid), or holds what was written before a write failed (not valid:
\* empty or cut short, json.loads rejects it or the text is empty).  A file
\* cut short inside a multi-byte character is not UTF-8: file.read() raises
\* UnicodeDecodeError on it.  Where a failed write stopped is not known
\* before the file is read (decodable "unknown", then "yes" or "no").
\* ------------------------------------------------------------------------

FileAbsent == [exists |-> FALSE, valid |-> FALSE, decodable |-> "yes", members |-> <<>>]

\* what a write that failed part-way leaves: a document with multi-byte
\* characters may be cut inside one
FileCut(multibyte) ==
    [exists |-> TRUE, valid |-> FALSE,
     decodable |-> IF multibyte THEN "unknown" ELSE "yes", members |-> <<>>]

\* json.dump(board_data, file, ...): one member per key, in dict order; None is null
DumpBoard(bd) ==
    [exists |-> TRUE, valid |-> TRUE, decodable |-> "yes",
     members |-> [i \in 1..Len(bd) |->
                    [name |-> bd[i].key,
                     value |-> [text |-> bd[i].text,
                                photo_id |-> IF bd[i].photo_id = "None"
                                             THEN [null |-> TRUE, str |-> ""]
                                             ELSE [null |-> FALSE, str |-> bd[i].photo_id]]]]]

\* The file as the read of line 95 finds it: is_utf8 says whether a file cut
\* at a place not known so far turns out to be UTF-8
ReadFile(f, is_utf8) ==
    IF f.decodable = "unknown"
    THEN [f EXCEPT !.decodable = IF is_utf8 THEN "yes" ELSE "no"]
    ELSE f

\* Whether the load at start-up ends: FileNotFoundError and JSONDecodeError
\* are caught, the UnicodeDecodeError of file.read() is not and ends the process
BoardLoads(f) == ~f.exists \/ f.decodable = "yes"

\* the load at start-up: absent, empty or unparsable gives {}
LoadBoard(f) ==
    IF ~f.exists \/ ~f.valid THEN <<>>
    ELSE [i \in 1..Len(f.members) |->
            [key |-> f.members[i].name,
             text |-> f.members[i].value.text,
             photo_id |-> IF f.members[i].value.photo_id.null THEN "None"
                          ELSE f.members[i].value.photo_id.str]]

\* list(muted_users): the elements in some order
SetToList(S) ==
    LET RECURSIVE L(_)
        L(T) == IF T = {} THEN <<>>
                ELSE LET x == CHOOSE x \in T : TRUE IN <<x>> \o L(T \ {x})
    IN  L(S)

\* json.dump(list(muted_users), file)
DumpMuted(mu) ==
    [exists |-> TRUE, valid |-> TRUE, decodable |-> "yes", members |-> SetToList(mu)]

\* set(json.load(file)), or set() when absent or unparsable
LoadMuted(f) ==
    IF ~f.exists \/ ~f.valid THEN {}
    ELSE {f.members[i] : i \in 1..Len(f.members)}

\* What the file holds after open(..., 'w') and json.dump.  fs is what the
\* file system does: "ok", "open_fails" (open raises, the file is untouched),
\* "write_fails" (open has truncated the file, the dump raises part-way).
WriteFile(old, new, multibyte, fs) ==
    CASE fs = "ok" -> new
      [] fs = "open_fails" -> old
      [] fs = "write_fails" -> FileCut(multibyte)

\* save_data(): the exception is caught and logged, never raised.  Every
\* entry has the Cyrillic note of line 203 (ensure_ascii=False), so what is
\* left of a dict that is not empty can end inside a character; "{}" cannot.
save_data(bd, fs) == WriteFile(data_file, DumpBoard(bd), bd # <<>>, fs)

\* save_muted_users(): the same for the mute list, which is digits, brackets
\* and commas only
save_muted_users(mu, fs) == WriteFile(muted_file, DumpMuted(mu), FALSE, fs)

\* ------------------------------------------------------------------------
\* user_states: a dict whose keys are the users with a guided flow under way.
\* A missing "subject" is <<>>, a missing "bot_prompt_message_id" is 0 (the
\* code tests both only for truth; Telegram's message ids are positive).
\* prompt_chat is the chat the message of bot_prompt_message_id was sent to
\* ("None" with no message): the code does not keep it, a message id says
\* which message is meant only together with its chat.
\* ------------------------------------------------------------------------

\* user_states.get(user_id, {}).get("state")
StateOf(us, u) == IF u \in DOMAIN us THEN us[u].state ELSE "None"

\* del user_states[user_id]
DelState(us, u) == [v \in DOMAIN us \ {u} |-> us[v]]

\* user_states[user_id] = rec
SetState(us, u, rec) == [v \in DOMAIN us \cup {u} |-> IF v = u THEN rec ELSE us[v]]

\* if user.id in user_states: del user_states[user.id]
DropState(us, u) == IF u \in DOMAIN us THEN DelState(us, u) ELSE us

\* The message_id of a message the bot sends: Telegram gives a new message an
\* id no message in use has; the least id no conversation state refers to.
NewMessageId(us) ==
    LET used == {us[u].bot_prompt_message_id : u \in DOMAIN us}
        free == (1..(Cardinality(DOMAIN us) + 1)) \ used
    IN  CHOOSE n \in free : \A k \in free : n <= k

\* ------------------------------------------------------------------------
\* What a handler leaves behind: the program state after it, the branch it
\* took (outcome), whether an exception left the handler (raised), and what
\* became of a save it made ("none" when it made none).  steps is what the
\* handler did to board_data, to its file and to tell the user of it, in the
\* order of the code; prompt_deletes is the deletions of a recorded prompt it
\* asked for, each the chat and the message id given to delete_message;
\* sends is what a lookup sent and scheduled, in the order of the code.
\* ------------------------------------------------------------------------

Res(outcome, raised, bd, mu, us, df, mf, save) ==
    [outcome |-> outcome, raised |-> raised, bd |-> bd, mu |-> mu, us |-> us,
     df |-> df, mf |-> mf, save |-> save, steps |-> <<>>, prompt_deletes |-> {},
     sends |-> <<>>]

\* the same with the steps of a change of board_data
WithSteps(r, steps) == [r EXCEPT !.steps = steps]

\* the same with the deletions of a prompt
WithPromptDeletes(r, deletes) == [r EXCEPT !.prompt_deletes = deletes]

\* if user_states[user.id].get("bot_prompt_message_id"): the deletion of that
\* message id in the chat of the event
PromptDelete(us, u, chat_id) ==
    IF u \in DOMAIN us /\ us[u].bot_prompt_message_id # 0
    THEN {[chat |-> chat_id, message_id |-> us[u].bot_prompt_message_id]}
    ELSE {}

\* a branch that forgets the guided flows under way
Same_without_states(outcome, raised) ==
    Res(outcome, raised, board_data, muted_users, [u \in {} |-> 0], data_file, muted_file, "none")

\* a branch that changes nothing
Same(outcome, raised) ==
    Res(outcome, raised, board_data, muted_users, user_states, data_file, muted_file, "none")

\* a branch that changes user_states only
WithStates(outcome, raised, us) ==
    Res(outcome, raised, board_data, muted_users, us, data_file, muted_file, "none")

\* ------------------------------------------------------------------------
\* Authorization gates
\* ------------------------------------------------------------------------

\* a chat gate that lets every chat through
ChatAllowed_every_chat(chat_id) == TRUE

\* not (chat_id not in TELEGRAM_CHAT_ID and chat_id != DEBUG_CHAT_ID)
ChatAllowed(chat_id) == ~(chat_id \notin TELEGRAM_CHAT_ID /\ chat_id # DEBUG_CHAT_ID)

\* a mute gate that stops nobody
IsMuted_nobody(user_id) == FALSE

\* user.id in muted_users
IsMuted(user_id) == user_id \in muted_users

\* user.id in ADMIN_ID
IsAdmin(user_id) == user_id \in ADMIN_ID

\* ------------------------------------------------------------------------
\* Telegram's side of a message: who may be named how
\* ------------------------------------------------------------------------

\* user.username, "None" when the account has none
Username(user_id) == IF user_id = "6066445210" THEN "NotReDate" ELSE "None"

\* The decimal numerals the model's messages can spell, each with the
\* identifier it denotes.
Numerals ==
    { [digits |-> <<"6", "0", "6", "6", "4", "4", "5", "2", "1", "0">>, id |-> "6066445210"],
      [digits |-> <<"1", "0", "0", "1">>, id |-> "1001"],
      [digits |-> <<"1", "0", "0", "2">>, id |-> "1002"],
      [digits |-> <<"-", "1", "0", "0", "2", "4", "1", "5", "7", "7", "0", "3", "1", "4">>,
       id |-> "-1002415770314"] }

\* str.isdigit()
IsDigits(s) == Len(s) > 0 /\ \A i \in 1..Len(s) : s[i] \in Digits

\* whether int(s) returns: optional blanks around an optionally signed numeral
IsInt(s) ==
    LET t == Strip(s)
    IN  IsDigits(t) \/ (Len(t) > 1 /\ t[1] \in {"-", "+"} /\ IsDigits(Tail(t)))

\* int(s): the identifier the numeral denotes, or "ValueError"
ParseInt(s) ==
    LET t == Strip(s)
    IN  IF ~IsInt(s) THEN "ValueError"
        ELSE IF \E n \in Numerals : n.digits = t
        THEN (CHOOSE n \in Numerals : n.digits = t).id
        ELSE "some other integer"

\* str.split()[0]: the first whitespace-delimited word
FirstWord(s) ==
    LET t == Strip(s)
        ws == {i \in 1..Len(t) : t[i] \in Whitespace}
    IN  IF ws = {} THEN t
        ELSE Slice(t, 0, (CHOOSE i \in ws : \A j \in ws : i <= j) - 1)

\* a check that takes no text for a command
StartsWithSlash_never(text) == FALSE

\* text.startswith('/')
StartsWithSlash(text) == StartsWith(text, <<"/">>)

\* telebot's util.extract_command(text): text.split()[0].split('@')[0][1:] for
\* a text that starts with '/', nothing (here <<>>) otherwise
ExtractCommand(text) ==
    IF ~StartsWithSlash(text) THEN <<>>
    ELSE LET w == FirstWord(text)
             at == Find(w, "@", 0)
             name == IF at = -1 THEN w ELSE Slice(w, 0, at)
         IN  Slice(name, 1, Len(name))

\* ------------------------------------------------------------------------
\* _save_and_confirm_homework (176-214)
\* ------------------------------------------------------------------------

\* formatted_date: day, Russian month and HH:MM of message.date at GMT+4
FormatDate(date) ==
    CASE date = 1700000000 -> "15 noyabrya v 02:13"
      [] OTHER -> "?"

\* user_mention
UserMention(user_id) ==
    IF Username(user_id) # "None" THEN <<"@", Username(user_id)>>
    ELSE <<"User ID: ", user_id>>

\* full_value_text
FullValueText(homework_text, date, user_id) ==
    homework_text \o <<"\n", "\n", "(Dobavleno ", FormatDate(date), " pol'zovatelem ">>
                  \o UserMention(user_id) \o <<")">>

\* a key kept in the letter case it was typed in
KeyLower_as_typed(subject) == subject

\* key_lower
KeyLower(subject) == Lower(subject)

\* a helper whose save raises when the write fails: the dict keeps the entry
\* and the handler does not get to the confirmation
_save_and_confirm_homework_save_raises(message, subject, homework_text, photo_file_id, tx, fs) ==
    LET bd == PutEntry(board_data, KeyLower(subject),
                       FullValueText(homework_text, message.date, message.user),
                       photo_file_id)
    IN  IF fs # "ok"
        THEN [bd |-> bd, df |-> save_data(bd, fs), save |-> fs, raised |-> TRUE,
              steps |-> <<"put", "save_data">>]
        ELSE [bd |-> bd, df |-> save_data(bd, fs), save |-> fs,
              raised |-> "send_message" \in tx,
              steps |-> <<"put", "save_data",
                          IF "send_message" \in tx THEN "confirmation_raised"
                          ELSE "confirmation">>]

\* a helper that sends the confirmation first and saves after it: a send
\* that raises leaves the dict changed and not saved
_save_and_confirm_homework_confirm_first(message, subject, homework_text, photo_file_id, tx, fs) ==
    LET bd == PutEntry(board_data, KeyLower(subject),
                       FullValueText(homework_text, message.date, message.user),
                       photo_file_id)
    IN  IF "send_message" \in tx
        THEN [bd |-> bd, df |-> data_file, save |-> "none", raised |-> TRUE,
              steps |-> <<"put", "confirmation_raised">>]
        ELSE [bd |-> bd, df |-> save_data(bd, fs), save |-> fs, raised |-> FALSE,
              steps |-> <<"put", "confirmation", "save_data">>]

\* The store and the file after lines 205-207, and whether the confirmation
\* of line 213 raised.
_save_and_confirm_homework(message, subject, homework_text, photo_file_id, tx, fs) ==
    LET bd == PutEntry(board_data, KeyLower(subject),
                       FullValueText(homework_text, message.date, message.user),
                       photo_file_id)
    IN  [bd |-> bd, df |-> save_data(bd, fs), save |-> fs,
         raised |-> "send_message" \in tx,
         steps |-> <<"put", "save_data",
                     IF "send_message" \in tx THEN "confirmation_raised"
                     ELSE "confirmation">>]

\* ------------------------------------------------------------------------
\* /set (584-683)
\* ------------------------------------------------------------------------

\* lines 627-657: the subject and the value of a command text that starts
\* with "/set ", or the error the parse ends with
ParseSet(command_text) ==
    LET parts == SplitSpace1(command_text)
    IN  IF Len(parts) < 2 \/ Strip(parts[2]) = <<>>
        THEN [error |-> "bad_format", subject |-> <<>>, value |-> <<>>]
        ELSE LET args_line == Strip(parts[2])
             IN  IF StartsWith(args_line, <<QUOTE>>)
                 THEN LET end_quote_index == Find(args_line, QUOTE, 1)
                      IN  IF end_quote_index = -1
                          THEN [error |-> "bad_quotes", subject |-> <<>>, value |-> <<>>]
                          ELSE [error |-> "None",
                                subject |-> Strip(Slice(args_line, 1, end_quote_index)),
                                value |-> Strip(Slice(args_line, end_quote_index + 1,
                                                      Len(args_line)))]
                 ELSE LET subject_parts == SplitSpace1(args_line)
                      IN  [error |-> "None",
                           subject |-> Strip(subject_parts[1]),
                           value |-> IF Len(subject_parts) > 1
                                     THEN Strip(subject_parts[2]) ELSE <<>>]

set_homework(message, tx, fs) ==
    LET replied == "reply_to" \in tx      \* a reply raised (in the try block: twice)
    IN
    IF IsMuted(message.user) THEN Same("muted", replied)
    ELSE IF ~ChatAllowed(message.chat) THEN Same("wrong_chat", replied)
    ELSE IF message.content_type = "photo"
            /\ ~(message.caption # <<>>
                 /\ StartsWith(Lower(message.caption), <<"/", "s", "e", "t", " ">>))
    THEN Same("photo_without_command", replied)
    ELSE
    LET command_text == IF message.content_type = "photo" THEN Strip(message.caption)
                        ELSE IF message.content_type = "text" THEN Strip(message.text)
                        ELSE <<>>
        photo_file_id == IF message.content_type = "photo" THEN message.photo ELSE "None"
    IN
    IF ~StartsWith(Lower(command_text), <<"/", "s", "e", "t", " ">>)
    THEN Same("not_a_set", FALSE)
    ELSE
    LET p == ParseSet(command_text)
    IN
    IF p.error # "None" THEN Same(p.error, replied)
    ELSE IF p.subject = <<>> THEN Same("empty_subject", replied)
    ELSE IF p.value = <<>> /\ photo_file_id = "None" THEN Same("empty_text", replied)
    ELSE
    LET s == _save_and_confirm_homework(message, p.subject, p.value, photo_file_id, tx, fs)
    IN  WithSteps(Res(IF s.raised THEN "saved_unconfirmed" ELSE "saved",
                      s.raised /\ replied,
                      s.bd, muted_users, user_states, s.df, muted_file, s.save),
                  s.steps)

\* ------------------------------------------------------------------------
\* /del (686-737)
\* ------------------------------------------------------------------------

\* lines 715-721: key_to_delete
KeyToDelete(rest) ==
    LET key_to_delete_raw == Strip(rest)
    IN  IF StartsWith(key_to_delete_raw, <<QUOTE>>) /\ EndsWith(key_to_delete_raw, <<QUOTE>>)
        THEN Lower(Strip(Slice(key_to_delete_raw, 1, Len(key_to_delete_raw) - 1)))
        ELSE Lower(key_to_delete_raw)

delete_board(message, tx, fs) ==
    LET replied == "reply_to" \in tx
        parts == SplitSpace1(message.text)
    IN
    IF IsMuted(message.user) THEN Same("muted", replied)
    ELSE IF ~ChatAllowed(message.chat) THEN Same("wrong_chat", replied)
    ELSE IF Len(parts) < 2 \/ Strip(parts[2]) = <<>> THEN Same("bad_format", replied)
    ELSE
    LET key_to_delete == KeyToDelete(parts[2])
    IN
    IF key_to_delete = <<>> THEN Same("empty_key", replied)
    ELSE IF HasKey(board_data, key_to_delete)
    THEN LET bd == DelEntry(board_data, key_to_delete)
         IN  WithSteps(Res("deleted", replied, bd, muted_users, user_states,
                           save_data(bd, fs), muted_file, fs),
                       <<"del", "save_data",
                         IF replied THEN "confirmation_raised" ELSE "confirmation">>)
    ELSE Same("not_found", replied)

\* ------------------------------------------------------------------------
\* /mute and /unmute (763-802, 834-873)
\* ------------------------------------------------------------------------

mute_user(message, tx, fs) ==
    LET replied == "reply_to" \in tx
        args == SplitSpace1(message.text)
    IN
    IF ~IsAdmin(message.user) THEN Same("not_admin", replied)
    ELSE IF Len(args) < 2 THEN Same("bad_format", replied)
    ELSE IF ParseInt(args[2]) = "ValueError" THEN Same("bad_id", replied)
    ELSE LET mu == muted_users \cup {ParseInt(args[2])}
         IN  Res("mute_done", replied, board_data, mu, user_states,
                 data_file, save_muted_users(mu, fs), fs)

\* an unmute by muted_users.remove, which raises KeyError for a user not in the set
unmute_user_remove(message, tx, fs) ==
    LET replied == "reply_to" \in tx
        args == SplitSpace1(message.text)
    IN
    IF ~IsAdmin(message.user) THEN Same("not_admin", replied)
    ELSE IF Len(args) < 2 THEN Same("bad_format", replied)
    ELSE IF ParseInt(args[2]) = "ValueError" THEN Same("bad_id", replied)
    ELSE IF ParseInt(args[2]) \notin muted_users THEN Same("unmute_failed", replied)
    ELSE LET mu == muted_users \ {ParseInt(args[2])}
         IN  Res("unmute_done", replied, board_data, mu, user_states,
                 data_file, save_muted_users(mu, fs), fs)

unmute_user(message, tx, fs) ==
    LET replied == "reply_to" \in tx
        args == SplitSpace1(message.text)
    IN
    IF ~IsAdmin(message.user) THEN Same("not_admin", replied)
    ELSE IF Len(args) < 2 THEN Same("bad_format", replied)
    ELSE IF ParseInt(args[2]) = "ValueError" THEN Same("bad_id", replied)
    ELSE LET mu == muted_users \ {ParseInt(args[2])}
         IN  Res("unmute_done", replied, board_data, mu, user_states,
                 data_file, save_muted_users(mu, fs), fs)

\* ------------------------------------------------------------------------
\* Start-up and /restart (93-98, 112-116, 133, 805-831, 915-918)
\* ------------------------------------------------------------------------

\* user_states = {}
NoStates == [u \in {} |-> 0]

\* os.execl: the module is run again, on the files as they are.  When the
\* load of line 95 raises, the new process ends before it has a bot.
Restarted(outcome, is_utf8) ==
    LET f == ReadFile(data_file, is_utf8)
    IN  IF BoardLoads(f)
        THEN Res(outcome, FALSE, LoadBoard(f), LoadMuted(muted_file), NoStates,
                 f, muted_file, "none")
        ELSE Res("startup_failed", TRUE, <<>>, {}, NoStates, f, muted_file, "none")

restart_bot(message, tx) ==
    LET replied == "reply_to" \in tx
    IN
    IF ~IsAdmin(message.user) THEN Same("not_admin", replied)
    ELSE IF replied THEN Same("restart_failed", TRUE)
    ELSE Restarted("restarted", "file.read" \notin tx)

\* ------------------------------------------------------------------------
\* /msgu (403-444)
\* ------------------------------------------------------------------------

\* str.split(' ', 2)
SplitSpace2(s) ==
    LET a == SplitSpace1(s)
    IN  IF Len(a) < 2 THEN a ELSE <<a[1]>> \o SplitSpace1(a[2])

\* line 426: the group id is digits, with or without a leading '-'
IsGroupId(s) == (StartsWith(s, <<"-">>) /\ IsDigits(Tail(s))) \/ IsDigits(s)

cmd_msgu(message, tx) ==
    LET replied == "reply_to" \in tx
        args == SplitSpace2(message.text)
    IN
    IF ~IsAdmin(message.user) THEN Same("not_admin", replied)
    ELSE IF Len(args) < 3 THEN Same("bad_format", replied)
    ELSE IF ~IsGroupId(args[2]) THEN Same("bad_group", replied)
    ELSE IF "send_message" \in tx THEN Same("msgu_failed", replied)
    ELSE Same("msgu_sent", replied)

\* ------------------------------------------------------------------------
\* /start (740-760) and stickers (242-252)
\* ------------------------------------------------------------------------

send_welcome(message, tx) ==
    IF "send_message" \in tx THEN Same("menu_failed", FALSE) ELSE Same("menu", FALSE)

FORBIDDEN_STICKER_SET == "trjufgz_by_stickrubot"

handle_sticker(message, tx) ==
    IF message.sticker_set = FORBIDDEN_STICKER_SET
    THEN IF "delete_message" \in tx THEN Same("sticker_kept", FALSE)
         ELSE Same("sticker_deleted", FALSE)
    ELSE Same("sticker_ignored", FALSE)

\* ------------------------------------------------------------------------
\* Inline buttons (255-400).  call.data is a sequence of atoms: <<"set_info">>,
\* <<"get:">> \o key, ...  No exception leaves this handler: line 388 catches
\* all, and the error message of line 392 is sent under its own try.
\* ------------------------------------------------------------------------

\* generate_subject_buttons (217-225): the callback_data of the buttons, one per
\* key of the dict (the order of the buttons is not represented)
generate_subject_buttons(bd) == {<<"get:">> \o bd[i].key : i \in 1..Len(bd)}

\* lines 266-288
callback_set_info(call, tx) ==
    LET us1 == DropState(user_states, call.user)
        us2 == SetState(us1, call.user,
                        [state |-> "waiting_for_subject", subject |-> <<>>,
                         bot_prompt_message_id |-> 0, prompt_chat |-> "None"])
        deletes == PromptDelete(user_states, call.user, call.chat)
    IN  IF "send_message" \in tx
        THEN WithPromptDeletes(WithStates("prompt_failed", FALSE, us2), deletes)
        ELSE WithPromptDeletes(
                 WithStates("prompted", FALSE,
                            SetState(us2, call.user,
                                     [us2[call.user] EXCEPT
                                        !.bot_prompt_message_id = NewMessageId(user_states),
                                        !.prompt_chat = call.chat])),
                 deletes)

\* Whether a request to Telegram fails: tx names the calls that fail
\* wherever they send ("send_photo", "send_message") and the calls that fail
\* to one destination, the private chat with the user ("pm") or the chat the
\* question came from ("chat")
Fails(tx, api_call, dest) ==
    \/ api_call \in tx
    \/ api_call = "send_photo" /\ dest = "pm" /\ "send_photo:pm" \in tx
    \/ api_call = "send_photo" /\ dest = "chat" /\ "send_photo:chat" \in tx
    \/ api_call = "send_message" /\ dest = "pm" /\ "send_message:pm" \in tx
    \/ api_call = "send_message" /\ dest = "chat" /\ "send_message:chat" \in tx

\* a copy whose failed photo is not sent again as text
SendTo_no_fallback(dest, photo_id, tx) ==
    IF photo_id # "None"
    THEN IF ~Fails(tx, "send_photo", dest) THEN <<[to |-> dest, what |-> "photo"]>>
         ELSE <<[to |-> dest, what |-> "raised"]>>
    ELSE IF ~Fails(tx, "send_message", dest) THEN <<[to |-> dest, what |-> "text"]>>
         ELSE <<[to |-> dest, what |-> "raised"]>>

\* One copy of the homework (330-338): the photo with the text as caption;
\* when send_photo raises, the text with the note; the text when there is no
\* photo.  "raised" when send_message raises.
SendTo(dest, photo_id, tx) ==
    IF photo_id # "None"
    THEN IF ~Fails(tx, "send_photo", dest) THEN <<[to |-> dest, what |-> "photo"]>>
         ELSE IF ~Fails(tx, "send_message", dest)
         THEN <<[to |-> dest, what |-> "text_with_note"]>>
         ELSE <<[to |-> dest, what |-> "raised"]>>
    ELSE IF ~Fails(tx, "send_message", dest) THEN <<[to |-> dest, what |-> "text"]>>
         ELSE <<[to |-> dest, what |-> "raised"]>>

\* Lines 328-365 and 1064-1102: in a private chat one copy; in a group a copy
\* to the user, then a copy to the group and the deletion of that copy
\* after 5 minutes.  An exception ends it where it is raised.
SendHomework(photo_id, private, tx) ==
    LET pm == SendTo("pm", photo_id, tx)
        chat == SendTo("chat", photo_id, tx)
    IN  IF pm[1].what = "raised" \/ private THEN pm
        ELSE IF chat[1].what = "raised" THEN pm \o chat
        ELSE pm \o chat \o <<[to |-> "chat", what |-> "delete_message_with_delay"]>>

\* an exception ended the lookup
SendRaised(sends) == \E i \in 1..Len(sends) : sends[i].what = "raised"

\* a copy went out as text in place of the photo
SentAsText(sends) == \E i \in 1..Len(sends) : sends[i].what = "text_with_note"

\* lines 314-372: what the lookup of the pressed subject sends; the keyboard
\* is deleted after it when the press came from a group
callback_get(call, tx) ==
    LET subject == Tail(call.data)
        private == call.chat = call.user
    IN  IF HasKey(board_data, subject)
        THEN LET homework == Entry(board_data, subject)
                 sends == SendHomework(homework.photo_id, private, tx)
             IN  IF SendRaised(sends)
                 THEN [Same("callback_error", FALSE) EXCEPT !.sends = sends]
                 ELSE [Same(IF SentAsText(sends) THEN "shown_as_text" ELSE "shown", FALSE)
                         EXCEPT !.sends =
                             IF private THEN sends
                             ELSE sends \o <<[to |-> "chat", what |-> "delete_keyboard"]>>]
        ELSE IF ~Fails(tx, "send_message", "chat") THEN Same("get_not_found", FALSE)
             ELSE Same("callback_error", FALSE)

\* lines 374-386
callback_cancel(call, tx) ==
    IF call.user \in DOMAIN user_states
    THEN WithPromptDeletes(
             WithStates(IF "send_message" \in tx THEN "cancelled_unconfirmed"
                        ELSE "cancelled",
                        FALSE, DelState(user_states, call.user)),
             PromptDelete(user_states, call.user, call.chat))
    ELSE Same(IF "send_message" \in tx THEN "callback_error" ELSE "nothing_to_cancel", FALSE)

\* the deletions the cancel branch schedules when the press was on the
\* message message_id of its chat: the prompt of the presser's state (378)
\* and, when the send of 380 or 383 went through, the pressed message (385)
callback_cancel_deletes(call, message_id, tx) ==
    PromptDelete(user_states, call.user, call.chat)
    \cup (IF "send_message" \in tx \/ "answer_callback_query" \in tx THEN {}
          ELSE {[chat |-> call.chat, message_id |-> message_id]})

handle_callback(call, tx) ==
    LET action == call.data
    IN
    IF "answer_callback_query" \in tx THEN Same("callback_error", FALSE)
    ELSE IF action = <<"set_info">> THEN callback_set_info(call, tx)
    ELSE IF action = <<"delete_info">>
    THEN Same(IF "send_message" \in tx THEN "callback_error" ELSE "delete_help", FALSE)
    ELSE IF action = <<"list">>
    THEN Same(IF "send_message" \in tx THEN "callback_error"
              ELSE IF board_data # <<>> THEN "list_shown" ELSE "list_empty", FALSE)
    ELSE IF StartsWith(action, <<"get:">>) THEN callback_get(call, tx)
    ELSE IF action = <<"cancel_add_hw">> THEN callback_cancel(call, tx)
    ELSE Same("unknown_action", FALSE)

\* ------------------------------------------------------------------------
\* The guided flow: the subject (447-507), then the details (510-581)
\* ------------------------------------------------------------------------

handle_subject_input(message, tx) ==
    LET user_id == message.user
        replied == "reply_to" \in tx
        subject == Strip(message.text)
    IN
    IF ~ChatAllowed(message.chat)
    THEN IF replied THEN Same("wrong_chat", TRUE)
         ELSE WithStates("wrong_chat", FALSE, DropState(user_states, user_id))
    ELSE IF IsMuted(user_id)
    THEN IF replied THEN Same("muted", TRUE)
         ELSE WithStates("muted", FALSE, DropState(user_states, user_id))
    ELSE IF subject = <<>> THEN Same("empty_subject", replied)
    ELSE
    LET us1 == SetState(user_states, user_id,
                        [user_states[user_id] EXCEPT
                           !.subject = subject,
                           !.state = "waiting_for_homework_details"])
        deletes == PromptDelete(user_states, user_id, message.chat)
    IN  IF "send_message" \in tx
        THEN WithPromptDeletes(WithStates("subject_unprompted", TRUE, us1), deletes)
        ELSE WithPromptDeletes(
                 WithStates("subject_taken", FALSE,
                            SetState(us1, user_id,
                                     [us1[user_id] EXCEPT
                                        !.bot_prompt_message_id = NewMessageId(user_states),
                                        !.prompt_chat = message.chat])),
                 deletes)

\* line 568
PHOTO_PLACEHOLDER == <<"(sm. foto)">>

handle_homework_details_input(message, tx, fs) ==
    LET user_id == message.user
        replied == "reply_to" \in tx
        current_state == IF user_id \in DOMAIN user_states THEN user_states[user_id]
                         ELSE [state |-> "None", subject |-> <<>>,
                               bot_prompt_message_id |-> 0, prompt_chat |-> "None"]
        subject == current_state.subject
        typed == IF message.content_type = "text" THEN Strip(message.text)
                 ELSE IF message.content_type = "photo" THEN Strip(message.caption)
                 ELSE <<>>
        photo_file_id == IF message.content_type = "photo" THEN message.photo ELSE "None"
        homework_text == IF typed = <<>> /\ photo_file_id # "None" THEN PHOTO_PLACEHOLDER
                         ELSE typed
    IN
    IF ~ChatAllowed(message.chat)
    THEN IF replied THEN Same("wrong_chat", TRUE)
         ELSE WithStates("wrong_chat", FALSE, DropState(user_states, user_id))
    ELSE IF IsMuted(user_id)
    THEN IF replied THEN Same("muted", TRUE)
         ELSE WithStates("muted", FALSE, DropState(user_states, user_id))
    ELSE IF subject = <<>>
    THEN IF replied THEN Same("no_subject", TRUE)
         ELSE WithStates("no_subject", FALSE, DropState(user_states, user_id))
    ELSE IF typed = <<>> /\ photo_file_id = "None" THEN Same("empty_details", replied)
    ELSE
    LET s == _save_and_confirm_homework(message, subject, homework_text, photo_file_id,
                                        tx, fs)
        deletes == PromptDelete(user_states, user_id, message.chat)
    IN  WithPromptDeletes(
            WithSteps(
                IF s.raised
                THEN Res("committed_unconfirmed", TRUE, s.bd, muted_users, user_states,
                         s.df, muted_file, s.save)
                ELSE Res("committed", FALSE, s.bd, muted_users,
                         DropState(user_states, user_id), s.df, muted_file, s.save),
                s.steps),
            deletes)

\* ------------------------------------------------------------------------
\* The subject resolver (934-1024)
\* ------------------------------------------------------------------------

\* a replace that takes out every whitespace character
RemoveSpaces_all_whitespace(s) == SelectSeq(s, LAMBDA c : c \notin Whitespace)

\* str.replace(" ", "")
RemoveSpaces(s) == SelectSeq(s, LAMBDA c : c # " ")

\* alias_map as the list of its assignments <<alias, key>>, in the order the
\* loop of lines 943-958 makes them; a later one overwrites an earlier one
AliasesOf(subj_key) ==
    LET key == Lower(subj_key)
        short == Slice(RemoveSpaces(key), 0, 4)
        nospace == RemoveSpaces(key)
    IN  IF subj_key = <<>> THEN <<>>
        ELSE <<<<key, key>>>>
             \o (IF Len(short) >= 2 THEN <<<<short, key>>>> ELSE <<>>)
             \o (IF nospace # <<>> /\ nospace # key THEN <<<<nospace, key>>>> ELSE <<>>)
             \o (IF Len(nospace) >= 2 THEN <<<<Slice(nospace, 0, 4), key>>>> ELSE <<>>)

RECURSIVE AliasAssignments(_, _)
AliasAssignments(bd, i) ==
    IF i > Len(bd) THEN <<>>
    ELSE AliasesOf(bd[i].key) \o AliasAssignments(bd, i + 1)

build_subject_alias_map(bd) == AliasAssignments(bd, 1)

\* cand in alias_map
InAliasMap(alias_map, cand) == \E i \in 1..Len(alias_map) : alias_map[i][1] = cand

\* alias_map[cand]
AliasValue(alias_map, cand) ==
    LET idx == {i \in 1..Len(alias_map) : alias_map[i][1] = cand}
    IN  alias_map[CHOOSE i \in idx : \A j \in idx : j <= i][2]

\* what \w or the class a-ya, yo matches: a letter, a digit or the underscore
WordChars ==
    Range(LatinLower) \cup Range(LatinUpper) \cup Range(CyrillicLower)
        \cup Range(CyrillicUpper) \cup Digits \cup {"_"}

IsWordChar(c) == c \in WordChars

\* normalize_word
normalize_word(w) == Strip(SelectSeq(Lower(w), IsWordChar))

CHTO == <<"c:ch", "c:t", "c:o">>
ZADALI == <<"c:z", "c:a", "c:d", "c:a", "c:l", "c:i">>
PO == <<"c:p", "c:o">>
KAKOE == <<"c:k", "c:a", "c:k", "c:o", "c:e">>
DZ == <<"c:d", "c:z">>
D == <<"c:d">>

\* The patterns of lines 984-991.  Each is a list of words, every word given
\* by its alternatives and followed by \s+ ("plus") or by one \s ("one"); the
\* capturing group (.+) ends each pattern.
patterns ==
    << << [alts |-> {CHTO}, sep |-> "plus"], [alts |-> {ZADALI, PO}, sep |-> "plus"] >>,
       << [alts |-> {CHTO}, sep |-> "plus"], [alts |-> {PO}, sep |-> "plus"] >>,
       << [alts |-> {CHTO}, sep |-> "plus"], [alts |-> {ZADALI}, sep |-> "plus"],
          [alts |-> {PO}, sep |-> "plus"] >>,
       << [alts |-> {KAKOE}, sep |-> "plus"], [alts |-> {DZ, D}, sep |-> "plus"],
          [alts |-> {PO}, sep |-> "plus"] >>,
       << [alts |-> {DZ, D}, sep |-> "plus"], [alts |-> {PO}, sep |-> "plus"] >>,
       << [alts |-> {CHTO}, sep |-> "one"], [alts |-> {<<"p", "o">>}, sep |-> "one"] >> >>

\* the position after the whitespace the separator takes at pos, 0 if it has none
AfterSep(t, pos, sep) ==
    IF pos > Len(t) \/ t[pos] \notin Whitespace THEN 0
    ELSE IF sep = "one" THEN pos + 1
    ELSE LET rest == {j \in pos..Len(t) : t[j] \notin Whitespace}
         IN  IF rest = {} THEN Len(t) + 1
             ELSE CHOOSE j \in rest : \A k \in rest : j <= k

\* The place the group (.+) starts when the words from the k-th on match at
\* pos, 0 when they do not.  At most one alternative of a word can match:
\* they differ in the character that follows their common part.
RECURSIVE MatchFrom(_, _, _, _)
MatchFrom(pattern, k, t, pos) ==
    IF pos = 0 THEN 0
    ELSE IF k > Len(pattern)
    THEN IF pos <= Len(t) /\ t[pos] # "\n" THEN pos ELSE 0
    ELSE LET ok == {a \in pattern[k].alts :
                      /\ Slice(t, pos - 1, pos - 1 + Len(a)) = a
                      /\ MatchFrom(pattern, k + 1, t,
                                   AfterSep(t, pos + Len(a), pattern[k].sep)) # 0}
         IN  IF ok = {} THEN 0
             ELSE LET a == CHOOSE a \in ok : TRUE
                  IN  MatchFrom(pattern, k + 1, t,
                                AfterSep(t, pos + Len(a), pattern[k].sep))

\* re.search(pattern, t) and match.group(match.lastindex): the text of the
\* last group of the leftmost match, <<>> when nothing matches
LastGroup(pattern, t) ==
    LET starts == {i \in 1..Len(t) : MatchFrom(pattern, 1, t, i) # 0}
    IN  IF starts = {} THEN <<>>
        ELSE LET i == CHOOSE i \in starts : \A j \in starts : i <= j
                 g == MatchFrom(pattern, 1, t, i)
                 nl == Find(t, "\n", g - 1)
             IN  Slice(t, g - 1, IF nl = -1 THEN Len(t) ELSE nl)

\* str.replace('"', '').replace("'", "")
RemoveQuotes(s) == SelectSeq(s, LAMBDA c : c # QUOTE /\ c # "'")

\* lines 1005-1010
Candidates(subject_block) ==
    << normalize_word(FirstWord(subject_block)),
       normalize_word(subject_block),
       normalize_word(RemoveQuotes(subject_block)),
       Strip(RemoveQuotes(subject_block)) >>

\* lines 1011-1019 from the i-th candidate on: the key found, <<>> if none
RECURSIVE TryCandidates(_, _, _)
TryCandidates(alias_map, cands, i) ==
    IF i > Len(cands) THEN <<>>
    ELSE LET cand == cands[i]
             cand_short == Slice(RemoveSpaces(cand), 0, 4)
         IN  IF cand = <<>> THEN TryCandidates(alias_map, cands, i + 1)
             ELSE IF InAliasMap(alias_map, cand) THEN AliasValue(alias_map, cand)
             ELSE IF InAliasMap(alias_map, cand_short) THEN AliasValue(alias_map, cand_short)
             ELSE TryCandidates(alias_map, cands, i + 1)

\* a loop that ends at the first pattern that matches, found or not
TryPatterns_first_match_only(alias_map, text_norm, k) ==
    LET matching == {j \in k..Len(patterns) :
                        Strip(LastGroup(patterns[j], text_norm)) # <<>>}
    IN  IF matching = {} THEN <<>>
        ELSE LET j == CHOOSE j \in matching : \A i \in matching : j <= i
             IN  TryCandidates(alias_map,
                               Candidates(Strip(LastGroup(patterns[j], text_norm))), 1)

\* the loop of lines 993-1019 from the k-th pattern on
RECURSIVE TryPatterns(_, _, _)
TryPatterns(alias_map, text_norm, k) ==
    IF k > Len(patterns) THEN <<>>
    ELSE LET subject_block == Strip(LastGroup(patterns[k], text_norm))
             found == IF subject_block = <<>> THEN <<>>
                      ELSE TryCandidates(alias_map, Candidates(subject_block), 1)
         IN  IF found # <<>> THEN found
             ELSE TryPatterns(alias_map, text_norm, k + 1)

\* find_subject_in_message: the key, or <<>> for None
find_subject_in_message(text, bd) ==
    IF text = <<>> THEN <<>>
    ELSE TryPatterns(build_subject_alias_map(bd), Strip(Lower(text)), 1)

\* ------------------------------------------------------------------------
\* Free text (1028-1110): the exception of a failed send stays in the handler
\* ------------------------------------------------------------------------

handle_general_queries(message, tx) ==
    LET text == Strip(message.text)
        subject_key == find_subject_in_message(text, board_data)
    IN
    IF text = <<>> THEN Same("ignored", FALSE)
    ELSE IF StartsWithSlash(text) THEN Same("ignored_command", FALSE)
    ELSE IF subject_key = <<>> THEN Same("not_a_query", FALSE)
    ELSE IF ~HasKey(board_data, subject_key) THEN Same("key_gone", FALSE)
    ELSE LET sends == SendHomework(Entry(board_data, subject_key).photo_id,
                                   message.chat = message.user, tx)
         IN  IF SendRaised(sends) THEN [Same("query_error", FALSE) EXCEPT !.sends = sends]
             ELSE [Same(IF SentAsText(sends) THEN "answered_as_text" ELSE "answered",
                        FALSE)
                     EXCEPT !.sends =
                         sends \o <<[to |-> "chat", what |-> "delete_user_message"]>>]

\* ------------------------------------------------------------------------
\* Dispatch: telebot gives a message to the first registered handler, in the
\* order of the decorators in the file, whose filters all pass.  A
\* "commands" filter passes only for a text message whose command is listed.
\* ------------------------------------------------------------------------

\* The texts the model's users send: each command, a subject name, a blank
\* text, a subject name with blanks around it, a question about a subject and
\* the same question after a slash.
Texts ==
    { <<"/", "s", "e", "t", " ", "M", " ", "p">>,
      <<"/", "s", "e", "t", " ", "N", " ", "q">>,
      <<" ", "M", " ">>,
      <<"/", "d", "e", "l", " ", "M">>,
      <<"/", "s", "t", "a", "r", "t">>,
      <<"/", "m", "u", "t", "e", " ", "1", "0", "0", "1">>,
      <<"/", "m", "u", "t", "e", " ", "1", "0", "0", "2">>,
      <<"/", "u", "n", "m", "u", "t", "e", " ", "1", "0", "0", "1">>,
      <<"/", "r", "e", "s", "t", "a", "r", "t">>,
      <<"/", "m", "s", "g", "u", " ", "1", "0", "0", "1", " ", "p">>,
      <<"M">>,
      <<" ">>,
      <<"c:ch", "c:t", "c:o", " ", "c:p", "c:o", " ", "M">>,
      <<"/", "c:ch", "c:t", "c:o", " ", "c:p", "c:o", " ", "M">> }

\* extract_command of each text, worked out once
Commands == [t \in Texts |-> ExtractCommand(t)]

CommandOf(message) ==
    IF message.content_type = "text" THEN Commands[message.text] ELSE <<>>

Handler(message) ==
    LET command == CommandOf(message)
        state == StateOf(user_states, message.user)
    IN  IF message.content_type = "sticker" THEN "handle_sticker"
        ELSE IF command = <<"m", "s", "g", "u">> THEN "cmd_msgu"
        ELSE IF state = "waiting_for_subject" /\ message.content_type = "text"
        THEN "handle_subject_input"
        ELSE IF /\ state = "waiting_for_homework_details"
                /\ message.content_type \in {"text", "photo"}
        THEN "handle_homework_details_input"
        ELSE IF command = <<"s", "e", "t">> THEN "set_homework"
        ELSE IF command = <<"d", "e", "l">> THEN "delete_board"
        ELSE IF command = <<"s", "t", "a", "r", "t">> THEN "send_welcome"
        ELSE IF command = <<"m", "u", "t", "e">> THEN "mute_user"
        ELSE IF command = <<"r", "e", "s", "t", "a", "r", "t">> THEN "restart_bot"
        ELSE IF command = <<"u", "n", "m", "u", "t", "e">> THEN "unmute_user"
        ELSE IF message.content_type = "text" THEN "handle_general_queries"
        ELSE "None"

\* The Telegram methods a handler calls, any of which may raise; for /restart
\* also the read of board_data.json by the process that replaces this one
ApiCalls(handler) ==
    CASE handler = "handle_sticker" -> {"delete_message"}
      [] handler \in {"cmd_msgu", "handle_subject_input",
                      "handle_homework_details_input", "set_homework"}
         -> {"reply_to", "send_message"}
      [] handler \in {"delete_board", "mute_user", "unmute_user"} -> {"reply_to"}
      [] handler = "restart_bot" -> {"reply_to", "file.read"}
      [] handler = "send_welcome" -> {"send_message"}
      [] handler = "handle_general_queries" -> {"send_message", "send_photo"}
      [] handler = "handle_callback"
         -> {"answer_callback_query", "send_message", "send_photo"}
      [] OTHER -> {}

FsOutcomes == {"ok", "open_fails", "write_fails"}

\* What may become of the write of a handler that saves a file
Writes(handler) ==
    IF handler \in {"handle_homework_details_input", "set_homework", "delete_board",
                    "mute_user", "unmute_user"}
    THEN FsOutcomes ELSE {"ok"}

\* What the handler the dispatcher picks makes of the message
Dispatch(message, tx, fs) ==
    LET handler == Handler(message)
    IN  CASE handler = "handle_sticker" -> handle_sticker(message, tx)
          [] handler = "cmd_msgu" -> cmd_msgu(message, tx)
          [] handler = "handle_subject_input" -> handle_subject_input(message, tx)
          [] handler = "handle_homework_details_input"
             -> handle_homework_details_input(message, tx, fs)
          [] handler = "set_homework" -> set_homework(message, tx, fs)
          [] handler = "delete_board" -> delete_board(message, tx, fs)
          [] handler = "send_welcome" -> send_welcome(message, tx)
          [] handler = "mute_user" -> mute_user(message, tx, fs)
          [] handler = "restart_bot" -> restart_bot(message, tx)
          [] handler = "unmute_user" -> unmute_user(message, tx, fs)
          [] handler = "handle_general_queries" -> handle_general_queries(message, tx)
          [] OTHER -> Same("dropped", FALSE)


\* ------------------------------------------------------------------------
\* The events the model delivers
\* ------------------------------------------------------------------------

TextMessage(user, chat, text) ==
    [user |-> user, chat |-> chat, content_type |-> "text", text |-> text,
     caption |-> <<>>, photo |-> "None", sticker_set |-> "None", date |-> 1700000000]

PhotoMessage(user, chat, caption) ==
    [user |-> user, chat |-> chat, content_type |-> "photo", text |-> <<>>,
     caption |-> caption, photo |-> "AgACAgIAAx", sticker_set |-> "None",
     date |-> 1700000000]

StickerMessage(user, chat, set_name) ==
    [user |-> user, chat |-> chat, content_type |-> "sticker", text |-> <<>>,
     caption |-> <<>>, photo |-> "None", sticker_set |-> set_name, date |-> 1700000000]

\* Who writes where: the administrator in the class group, one more user in
\* the class group and in the private chat with the bot, whose id is the
\* user's own and is not in TELEGRAM_CHAT_ID.
Senders == { [user |-> "6066445210", chat |-> "-1002415770314"],
             [user |-> "1001", chat |-> "-1002415770314"],
             [user |-> "1001", chat |-> "1001"] }

Users == {w.user : w \in Senders}

Captions == { <<>>, <<"p">> }

StickerSets == { FORBIDDEN_STICKER_SET, "None" }

Messages ==
    {TextMessage(w.user, w.chat, t) : w \in Senders, t \in Texts}
    \cup {PhotoMessage(w.user, w.chat, c) : w \in Senders, c \in Captions}
    \cup {StickerMessage(w.user, w.chat, n) : w \in Senders, n \in StickerSets}

CallData ==
    { <<"set_info">>, <<"delete_info">>, <<"list">>, <<"cancel_add_hw">>,
      <<"get:", "m">>, <<"get:", "p">> }

Calls == {[user |-> w.user, chat |-> w.chat, data |-> d] : w \in Senders, d \in CallData}

\* ------------------------------------------------------------------------
\* The state machine
\* ------------------------------------------------------------------------

MaxUpdates == 3

\* os.execl replaces the process: a thread of delete_message_with_delay that
\* is still in its sleep is gone with it
KillTimers(ts) ==
    [i \in 1..Len(ts) |-> IF ts[i].pc = "sleeping" THEN [ts[i] EXCEPT !.pc = "killed"]
                          ELSE ts[i]]

Init ==
    /\ board_data = <<>>
    /\ muted_users = {}
    /\ user_states = NoStates
    /\ data_file = FileAbsent
    /\ muted_file = FileAbsent
    /\ last = [handler |-> "None", outcome |-> "started"]
    /\ updates = 0
    /\ worker_pool = <<>>
    /\ query = <<>>
    /\ main_loop = [pc |-> "polling", seconds |-> 0, failures |-> 0]
    /\ timers = <<>>

Apply(handler, r) ==
    /\ board_data' = r.bd
    /\ muted_users' = r.mu
    /\ user_states' = r.us
    /\ data_file' = r.df
    /\ muted_file' = r.mf
    /\ last' = [handler |-> handler, outcome |-> r.outcome]
    /\ updates' = updates + 1
    /\ worker_pool' = IF r.outcome \in {"restarted", "startup_failed"} THEN <<>>
                      ELSE worker_pool
    /\ timers' = IF r.outcome \in {"restarted", "startup_failed"} THEN KillTimers(timers)
                 ELSE timers
    /\ UNCHANGED <<query, main_loop>>

\* the process is there: its start-up did not end in an exception
Running == last.outcome # "startup_failed"

\* the messages of the update that the dispatcher gives to the named handler
Routed(handler) ==
    IF updates < MaxUpdates /\ Running THEN {m \in Messages : Handler(m) = handler}
    ELSE {}

On_handle_sticker ==
    \E m \in Routed("handle_sticker"), tx \in SUBSET ApiCalls("handle_sticker") :
        Apply("handle_sticker", handle_sticker(m, tx))

On_cmd_msgu ==
    \E m \in Routed("cmd_msgu"), tx \in SUBSET ApiCalls("cmd_msgu") :
        Apply("cmd_msgu", cmd_msgu(m, tx))

On_handle_subject_input ==
    \E m \in Routed("handle_subject_input"), tx \in SUBSET ApiCalls("handle_subject_input") :
        Apply("handle_subject_input", handle_subject_input(m, tx))

On_handle_homework_details_input ==
    \E m \in Routed("handle_homework_details_input"),
       tx \in SUBSET ApiCalls("handle_homework_details_input"), fs \in Writes("handle_homework_details_input") :
        Apply("handle_homework_details_input",
              handle_homework_details_input(m, tx, fs))

On_set_homework ==
    \E m \in Routed("set_homework"),
       tx \in SUBSET ApiCalls("set_homework"), fs \in Writes("set_homework") :
        Apply("set_homework", set_homework(m, tx, fs))

On_delete_board ==
    \E m \in Routed("delete_board"), tx \in SUBSET ApiCalls("delete_board"), fs \in Writes("delete_board") :
        Apply("delete_board", delete_board(m, tx, fs))

On_send_welcome ==
    \E m \in Routed("send_welcome"), tx \in SUBSET ApiCalls("send_welcome") :
        Apply("send_welcome", send_welcome(m, tx))

On_mute_user ==
    \E m \in Routed("mute_user"), tx \in SUBSET ApiCalls("mute_user"), fs \in Writes("mute_user") :
        Apply("mute_user", mute_user(m, tx, fs))

On_restart_bot ==
    \E m \in Routed("restart_bot"), tx \in SUBSET ApiCalls("restart_bot") :
        Apply("restart_bot", restart_bot(m, tx))

On_unmute_user ==
    \E m \in Routed("unmute_user"), tx \in SUBSET ApiCalls("unmute_user"), fs \in Writes("unmute_user") :
        Apply("unmute_user", unmute_user(m, tx, fs))

On_handle_general_queries ==
    \E m \in Routed("handle_general_queries"),
       tx \in SUBSET ApiCalls("handle_general_queries") :
        Apply("handle_general_queries", handle_general_queries(m, tx))

\* a message no handler's filters accept is dropped
On_unhandled ==
    \E m \in Routed("None") : Apply("None", Same("dropped", FALSE))

On_handle_callback ==
    /\ updates < MaxUpdates
    /\ Running
    /\ \E call \in Calls,
          tx \in SUBSET ApiCalls("handle_callback") :
           Apply("handle_callback", handle_callback(call, tx))

\* "restart" typed at the console (915-918): the process is replaced
On_console_restart ==
    /\ updates < MaxUpdates
    /\ Running
    /\ \E is_utf8 \in BOOLEAN :
           Apply("console_command_handler", Restarted("restarted", is_utf8))

Next ==
    \/ On_handle_sticker
    \/ On_cmd_msgu
    \/ On_handle_subject_input
    \/ On_handle_homework_details_input
    \/ On_set_homework
    \/ On_delete_board
    \/ On_send_welcome
    \/ On_mute_user
    \/ On_restart_bot
    \/ On_unmute_user
    \/ On_handle_general_queries
    \/ On_unhandled
    \/ On_handle_callback
    \/ On_console_restart

Spec == Init /\ [][Next]_vars

\* ------------------------------------------------------------------------
\* The worker pool.  telebot.TeleBot(API_TOKEN) (line 63) is given no
\* threaded=False: the bot it makes hands every handler call to a pool of
\* two threads, and polling (1127) goes on to the next update while a call
\* runs.  A handler is then not one step: a thread in the middle of it gives
\* way at each request to Telegram, and the other thread runs another
\* handler.  Here one call of handle_subject_input is begun by one thread (its
\* reads and gates, up to the request of line 486) and ended later (its
\* writes, from line 490), and the other thread runs whole handlers meanwhile.
\* ------------------------------------------------------------------------

\* lines 452-488 get to line 490: the gates pass and the subject is not blank
handle_subject_input_reads(message) ==
    /\ ChatAllowed(message.chat)
    /\ ~IsMuted(message.user)
    /\ Strip(message.text) # <<>>

\* lines 490-505, on user_states as it is when the thread gets there:
\* user_states[user.id] raises KeyError when the state is gone
handle_subject_input_writes(message, tx) ==
    LET user_id == message.user
        subject == Strip(message.text)
    IN  IF user_id \notin DOMAIN user_states THEN Same("subject_key_error", TRUE)
        ELSE LET us1 == SetState(user_states, user_id,
                                 [user_states[user_id] EXCEPT
                                    !.subject = subject,
                                    !.state = "waiting_for_homework_details"])
             IN  IF "send_message" \in tx
                 THEN WithStates("subject_unprompted", TRUE, us1)
                 ELSE WithStates("subject_taken", FALSE,
                                 SetState(us1, user_id,
                                          [us1[user_id] EXCEPT
                                             !.bot_prompt_message_id =
                                                 NewMessageId(user_states),
                                             !.prompt_chat = message.chat]))

\* a pool thread begins handle_subject_input and stops at a request
Begin_handle_subject_input ==
    /\ worker_pool = <<>>
    /\ \E m \in Routed("handle_subject_input") :
           /\ handle_subject_input_reads(m)
           /\ worker_pool' = <<[message |-> m, user_states |-> user_states,
                                board_data |-> board_data]>>
    /\ last' = [handler |-> "handle_subject_input", outcome |-> "subject_read"]
    /\ updates' = updates + 1
    /\ UNCHANGED <<board_data, muted_users, user_states, data_file, muted_file, query,
                   main_loop, timers>>

\* the thread goes on from line 490 to the end of the handler
End_handle_subject_input ==
    /\ worker_pool # <<>>
    /\ \E tx \in SUBSET {"send_message"} :
           LET r == handle_subject_input_writes(worker_pool[1].message, tx)
           IN  /\ user_states' = r.us
               /\ last' = [handler |-> "handle_subject_input", outcome |-> r.outcome]
    /\ worker_pool' = <<>>
    /\ UNCHANGED <<board_data, muted_users, data_file, muted_file, updates, query,
                   main_loop, timers>>

NextWorkers ==
    \/ Next
    \/ Begin_handle_subject_input
    \/ End_handle_subject_input

SpecWorkers == Init /\ [][NextWorkers]_vars

\* ------------------------------------------------------------------------
\* A batch of updates.  The polling thread takes the messages of one
\* getUpdates answer in turn: for each it evaluates the filters of the
\* handlers (the lambdas of lines 448 and 511 read user_states then) and hands
\* the call to the pool, without waiting for the calls handed over before.
\* The call runs later, on user_states as it is by then (line 517).  Here the
\* photos of an album that the filter of handle_homework_details_input
\* accepts are handed over, up to MaxBatch of them, and run in the order they
\* came; updates counts a batch once.
\* ------------------------------------------------------------------------

MaxBatch == 2

\* the filter of line 511 accepts the message and the call is handed to the pool
Dispatch_handle_homework_details_input ==
    /\ Running
    /\ Len(worker_pool) < MaxBatch
    /\ worker_pool = <<>> => updates < MaxUpdates
    /\ \E m \in {x \in Messages : /\ Handler(x) = "handle_homework_details_input"
                                  /\ x.content_type = "photo"} :
           worker_pool' = Append(worker_pool, [message |-> m, user_states |-> user_states,
                                               board_data |-> board_data])
    /\ updates' = IF worker_pool = <<>> THEN updates + 1 ELSE updates
    /\ UNCHANGED <<board_data, muted_users, user_states, data_file, muted_file, last,
                   query, main_loop, timers>>

\* a pool thread runs the call that was handed over first (lines 514-581)
Run_handle_homework_details_input ==
    /\ worker_pool # <<>>
    /\ \E tx \in SUBSET ApiCalls("handle_homework_details_input"),
          fs \in Writes("handle_homework_details_input") :
           LET r == handle_homework_details_input(worker_pool[1].message, tx, fs)
           IN  /\ board_data' = r.bd
               /\ user_states' = r.us
               /\ data_file' = r.df
               /\ last' = [handler |-> "handle_homework_details_input",
                           outcome |-> r.outcome]
    /\ worker_pool' = Tail(worker_pool)
    /\ UNCHANGED <<muted_users, muted_file, updates, query, main_loop, timers>>

SpecBatch ==
    Init /\ [][On_handle_callback \/ On_handle_subject_input
                   \/ Dispatch_handle_homework_details_input
                   \/ Run_handle_homework_details_input]_vars

\* ------------------------------------------------------------------------
\* The resolver on its own: find_subject_in_message is a function of the text
\* and of the keys of board_data.  The board is any board of up to MaxKeys of
\* the subjects below, as /set and the guided flow leave it (keys lower-case
\* and stripped), and the resolver is called on each of the questions.
\* ------------------------------------------------------------------------

MATEMATIKA == <<"c:m", "c:a", "c:t", "c:e", "c:m", "c:a", "c:t", "c:i", "c:k", "c:a">>
ANGLIJSKIJ == <<"c:a", "c:n", "c:g", "c:l", "c:i", "c:j", "c:s", "c:k", "c:i", "c:j">>
MATE == <<"c:m", "c:a", "c:t", "c:e">>
POMOSCH == <<"c:p", "c:o", "c:m", "c:o", "c:sch", "c:soft">>
MOSCHNOST == <<"c:m", "c:o", "c:sch", "c:n", "c:o", "c:s", "c:t", "c:soft">>
INF == <<"c:i", "c:n">>
IN_YAZ == <<"c:i", "c:n", " ", "c:ya", "c:z">>
IN_NL_YAZ == <<"c:i", "c:n", "\n", "c:ya", "c:z">>

\* the subjects of the boards: a subject typed as the text of the guided flow
\* can have a space or a line break inside
Subjects == {MATEMATIKA, ANGLIJSKIJ, MATE, POMOSCH, MOSCHNOST, INF, IN_YAZ, IN_NL_YAZ}

MaxKeys == 2

\* the boards of up to MaxKeys subjects, in every order of insertion
Boards ==
    LET entry(k) == [key |-> k, text |-> <<"p">>, photo_id |-> "None"]
        RECURSIVE upto(_)
        upto(n) == IF n = 0 THEN {<<>>}
                   ELSE upto(n - 1) \cup
                        {Append(bd, entry(k)) :
                            bd \in {b \in upto(n - 1) : Len(b) = n - 1},
                            k \in Subjects}
    IN  {bd \in upto(MaxKeys) : \A i, j \in 1..Len(bd) : bd[i].key = bd[j].key => i = j}

\* "chto zadali po <x>" and "chto po <x>"
ChtoZadaliPo(x) == CHTO \o <<" ">> \o ZADALI \o <<" ">> \o PO \o <<" ">> \o x
ChtoPo(x) == CHTO \o <<" ">> \o PO \o <<" ">> \o x

MATEMATIKE == <<"c:m", "c:a", "c:t", "c:e", "c:m", "c:a", "c:t", "c:i", "c:k", "c:e">>
ANGL == <<"c:a", "c:n", "c:g", "c:l">>
FIZIKE == <<"c:f", "c:i", "c:z", "c:i", "c:k", "c:e">>
MOSCHNOSTI == <<"c:m", "c:o", "c:sch", "c:n", "c:o", "c:s", "c:t", "c:i">>

\* what is asked about
Asked == {MATEMATIKE, ANGL, FIZIKE, MOSCHNOSTI, IN_YAZ}

\* the questions
Queries == {ChtoZadaliPo(x) : x \in Asked} \cup {ChtoPo(x) : x \in Asked}

InitResolver ==
    /\ board_data \in Boards
    /\ muted_users = {}
    /\ user_states = NoStates
    /\ data_file = DumpBoard(board_data)
    /\ muted_file = FileAbsent
    /\ last = [handler |-> "None", outcome |-> "started"]
    /\ updates = 0
    /\ worker_pool = <<>>
    /\ query = <<>>
    /\ main_loop = [pc |-> "polling", seconds |-> 0, failures |-> 0]
    /\ timers = <<>>

\* handle_general_queries asks the resolver about a text (1049)
On_find_subject_in_message ==
    /\ \E text \in Queries :
           query' = <<[text |-> text,
                       alias_map |-> build_subject_alias_map(board_data),
                       subject_key |-> find_subject_in_message(text, board_data)]>>
    /\ UNCHANGED <<board_data, muted_users, user_states, data_file, muted_file, last,
                   updates, worker_pool, main_loop, timers>>

SpecResolver == InitResolver /\ [][On_find_subject_in_message]_vars

\* ------------------------------------------------------------------------
\* Lookups of a board that has an entry: the board is as the guided flow
\* leaves it after the subject "M" and the details "p", sent as a text or as
\* the caption of a photo, and each send of a lookup fails or not on its own.
\* ------------------------------------------------------------------------

LookupBoards ==
    {PutEntry(<<>>, <<"m">>, FullValueText(<<"p">>, 1700000000, "1001"), photo_id) :
        photo_id \in {"None", "AgACAgIAAx"}}

\* the sends of a lookup, by destination
LookupCalls == {"send_photo:pm", "send_photo:chat", "send_message:pm", "send_message:chat"}

InitLookup ==
    /\ board_data \in LookupBoards
    /\ muted_users = {}
    /\ user_states = NoStates
    /\ data_file = DumpBoard(board_data)
    /\ muted_file = FileAbsent
    /\ last = [handler |-> "None", outcome |-> "started"]
    /\ updates = 0
    /\ worker_pool = <<>>
    /\ query = <<>>
    /\ main_loop = [pc |-> "polling", seconds |-> 0, failures |-> 0]
    /\ timers = <<>>

\* a press of a subject button
On_callback_get ==
    /\ updates < MaxUpdates
    /\ Running
    /\ \E call \in {c \in Calls : StartsWith(c.data, <<"get:">>)},
          tx \in SUBSET LookupCalls :
           Apply("handle_callback", handle_callback(call, tx))

\* a question about a subject
On_general_query ==
    \E m \in Routed("handle_general_queries"), tx \in SUBSET LookupCalls :
        Apply("handle_general_queries", handle_general_queries(m, tx))

\* the lookups, and the handlers that change the board between them
SpecLookup ==
    InitLookup /\ [][On_callback_get \/ On_general_query \/ On_set_homework
                         \/ On_delete_board]_vars

\* ------------------------------------------------------------------------
\* The deletions of delete_message_with_delay (153-173): each call starts a
\* thread that sleeps, asks Telegram once to delete the message and ends.
\* The handlers that call it go on at once; here a call is a step of its own,
\* beside the restarts of the process.
\* ------------------------------------------------------------------------

MaxTimers == 2

\* delete() (163-171) after its sleep: one bot.delete_message; an exception
\* is caught, and logged unless its text is one of the two of line 169
delete(timer, result) ==
    [timer EXCEPT !.pc = "done",
                  !.attempts = @ + 1,
                  !.logged = result \in {"timeout"}]

\* a handler calls delete_message_with_delay and goes on:
\* threading.Thread(target=delete).start() (173), the thread in its sleep
Schedule_deletion ==
    /\ Running
    /\ Len(timers) < MaxTimers
    /\ \E chat_id \in {w.chat : w \in Senders}, message_id \in 1..2, delay \in {1, 300} :
           timers' = Append(timers,
                            [chat_id |-> chat_id, message_id |-> message_id,
                             delay |-> delay, pc |-> "sleeping", attempts |-> 0,
                             logged |-> FALSE, raised |-> FALSE])
    /\ UNCHANGED <<board_data, muted_users, user_states, data_file, muted_file, last,
                   updates, worker_pool, query, main_loop>>

\* the sleep of a thread is over and it makes its attempt; bot.delete_message
\* deletes, or raises with one of the two texts that line 169 looks for, or
\* raises with another text
Timer_deletes ==
    /\ \E i \in 1..Len(timers),
          result \in {"deleted", "message to delete not found",
                      "message can't be deleted", "timeout"} :
           /\ timers[i].pc = "sleeping"
           /\ timers' = [timers EXCEPT ![i] = delete(timers[i], result)]
    /\ UNCHANGED <<board_data, muted_users, user_states, data_file, muted_file, last,
                   updates, worker_pool, query, main_loop>>

SpecTimers ==
    Init /\ [][Schedule_deletion \/ Timer_deletes \/ On_restart_bot
                   \/ On_console_restart]_vars

\* ------------------------------------------------------------------------
\* The loop of lines 1125-1139 on its own: bot.polling raises, the except
\* clause that takes the exception sleeps, and the loop calls bot.polling
\* again.  An exception no clause takes would leave the loop ("exited").
\* ------------------------------------------------------------------------

\* What bot.polling can raise: an error answer of Telegram (a subclass of
\* telebot.apihelper.ApiException), a reset or refused connection (the
\* built-in ConnectionError), a connection error of requests (an OSError that
\* is no ConnectionError), and any other Exception, one of a handler included
ErrorClasses ==
    {"ApiTelegramException", "ConnectionResetError", "requests.ConnectionError",
     "KeyError"}

\* the except clauses of 1128, 1132 and 1136, in their order: the seconds of
\* the sleep of the first clause that takes the exception, 0 when none does
Backoff_api_errors_only(error) == IF error = "ApiTelegramException" THEN 10 ELSE 0

Backoff(error) ==
    IF error = "ApiTelegramException" THEN 10
    ELSE IF error = "ConnectionResetError" THEN 30
    ELSE 60

MaxFailures == 2

\* bot.polling raises and an except clause begins its sleep
Polling_raises ==
    /\ main_loop.pc = "polling"
    /\ main_loop.failures < MaxFailures
    /\ \E error \in ErrorClasses :
           main_loop' = IF Backoff(error) = 0
                        THEN [pc |-> "exited", seconds |-> 0,
                              failures |-> main_loop.failures + 1]
                        ELSE [pc |-> "sleeping", seconds |-> Backoff(error),
                              failures |-> main_loop.failures + 1]
    /\ UNCHANGED <<board_data, muted_users, user_states, data_file, muted_file, last,
                   updates, worker_pool, query, timers>>

\* a second of time.sleep goes by
Sleep_second ==
    /\ main_loop.pc = "sleeping"
    /\ main_loop.seconds > 0
    /\ main_loop' = [main_loop EXCEPT !.seconds = @ - 1]
    /\ UNCHANGED <<board_data, muted_users, user_states, data_file, muted_file, last,
                   updates, worker_pool, query, timers>>

\* time.sleep returns and the while loop calls bot.polling again
Polling_again ==
    /\ main_loop.pc = "sleeping"
    /\ main_loop.seconds = 0
    /\ main_loop' = [pc |-> "polling", seconds |-> 0, failures |-> main_loop.failures]
    /\ UNCHANGED <<board_data, muted_users, user_states, data_file, muted_file, last,
                   updates, worker_pool, query, timers>>

\* time goes by and a sleep that is over returns
SpecPolling ==
    /\ Init
    /\ [][Polling_raises \/ Sleep_second \/ Polling_again]_vars
    /\ WF_vars(Sleep_second)
    /\ WF_vars(Polling_again)

\* ------------------------------------------------------------------------
\* Properties
\* ------------------------------------------------------------------------

\* the handlers that write, or lead to a write of, board_data
WriteHandlers ==
    {"set_homework", "delete_board", "handle_subject_input",
     "handle_homework_details_input"}

\* the chat id is neither in the allow-list nor the debug chat
OutsideChat(chat_id) == chat_id \notin TELEGRAM_CHAT_ID /\ chat_id # DEBUG_CHAT_ID

\* C1: in every reachable state, a /set, a /del, a guided-flow subject or
\* guided-flow details message that comes from a chat neither in
\* TELEGRAM_CHAT_ID nor equal to DEBUG_CHAT_ID takes a rejection branch, and
\* board_data and its file are after the handler what they were before it,
\* whatever the message holds and whichever Telegram call or write fails.
C1_OutsideChatIsRejected ==
    \A m \in Messages :
        (Handler(m) \in WriteHandlers /\ OutsideChat(m.chat)) =>
            \A tx \in SUBSET ApiCalls(Handler(m)), fs \in Writes(Handler(m)) :
                LET r == Dispatch(m, tx, fs)
                IN  /\ r.outcome \in {"wrong_chat", "muted"}
                    /\ r.bd = board_data
                    /\ r.df = data_file
                    /\ r.save = "none"

\* C1 happens: a user with a pending subject sent the details from the private
\* chat and was turned away
C1_Witness ==
    /\ last.handler = "handle_homework_details_input"
    /\ last.outcome = "wrong_chat"

\* C2: in every reachable state, a /set, a /del, a guided-flow subject or
\* guided-flow details message of a user who is in muted_users leaves
\* board_data and its file as they were (also when the user was muted with a
\* flow under way), and a well-formed /set of a user who is not in muted_users
\* (never muted, or unmuted since) from an allowed chat stores its entry.
C2_MutedUserCannotWrite ==
    \A m \in Messages :
        /\ (Handler(m) \in WriteHandlers /\ m.user \in muted_users) =>
               \A tx \in SUBSET ApiCalls(Handler(m)), fs \in Writes(Handler(m)) :
                   LET r == Dispatch(m, tx, fs)
                   IN  /\ r.outcome \in {"muted", "wrong_chat"}
                       /\ r.bd = board_data
                       /\ r.df = data_file
                       /\ r.save = "none"
        /\ (/\ Handler(m) = "set_homework"
            /\ m.user \notin muted_users
            /\ ~OutsideChat(m.chat)
            /\ m.text \in { <<"/", "s", "e", "t", " ", "M", " ", "p">>,
                            <<"/", "s", "e", "t", " ", "N", " ", "q">> }) =>
               \A tx \in SUBSET ApiCalls("set_homework"), fs \in Writes("set_homework") :
                   LET r == Dispatch(m, tx, fs)
                   IN  /\ r.outcome \in {"saved", "saved_unconfirmed"}
                       /\ HasKey(r.bd, Lower(<<m.text[6]>>))
                       /\ r.save = fs

\* C2 happens: user 1001 is muted and a message of the guided flow that user
\* had under way was turned away for it
C2_Witness ==
    /\ "1001" \in muted_users
    /\ last.handler \in {"handle_subject_input", "handle_homework_details_input"}
    /\ last.outcome = "muted"

\* the slash-commands of command handlers registered after the two handlers
\* of the guided flow
SlashCommands ==
    { <<"s", "e", "t">>, <<"d", "e", "l">>, <<"s", "t", "a", "r", "t">>,
      <<"m", "u", "t", "e">>, <<"u", "n", "m", "u", "t", "e">>,
      <<"r", "e", "s", "t", "a", "r", "t">> }

\* the handler whose commands=[...] filter names the command
CommandHandler(command) ==
    CASE command = <<"s", "e", "t">> -> "set_homework"
      [] command = <<"d", "e", "l">> -> "delete_board"
      [] command = <<"s", "t", "a", "r", "t">> -> "send_welcome"
      [] command = <<"m", "u", "t", "e">> -> "mute_user"
      [] command = <<"u", "n", "m", "u", "t", "e">> -> "unmute_user"
      [] command = <<"r", "e", "s", "t", "a", "r", "t">> -> "restart_bot"
      [] command = <<"m", "s", "g", "u">> -> "cmd_msgu"
      [] OTHER -> "None"

InFlow(user) ==
    StateOf(user_states, user) \in {"waiting_for_subject", "waiting_for_homework_details"}

\* C3: in every reachable state, a text message that is one of the commands
\* /set, /del, /start, /mute, /unmute, /restart, sent by a user whose
\* conversation state is waiting_for_subject or waiting_for_homework_details,
\* is given to that command's handler and not to a handler of the guided flow.
C3_CommandsTakePrecedence ==
    \A m \in Messages :
        (m.content_type = "text" /\ CommandOf(m) \in SlashCommands /\ InFlow(m.user)) =>
            /\ Handler(m) = CommandHandler(CommandOf(m))
            /\ Handler(m) \notin {"handle_subject_input", "handle_homework_details_input"}

\* C4: in every reachable state, an event (message or button press) whose chat
\* is outside the allowed chats or whose user is in muted_users leaves
\* board_data and user_states as they were, whichever handler takes it;
\* in particular the "set_info" button creates no conversation state for it.
C4_GatesBeforeAnyMutation ==
    /\ \A m \in Messages :
           (OutsideChat(m.chat) \/ m.user \in muted_users) =>
               \A tx \in SUBSET ApiCalls(Handler(m)), fs \in Writes(Handler(m)) :
                   LET r == Dispatch(m, tx, fs)
                   IN  r.bd = board_data /\ r.us = user_states
    /\ \A call \in Calls :
           (OutsideChat(call.chat) \/ call.user \in muted_users) =>
               \A tx \in SUBSET ApiCalls("handle_callback") :
                   LET r == handle_callback(call, tx)
                   IN  r.bd = board_data /\ r.us = user_states

AdminCommands ==
    { <<"m", "u", "t", "e">>, <<"u", "n", "m", "u", "t", "e">>,
      <<"m", "s", "g", "u">>, <<"r", "e", "s", "t", "a", "r", "t">> }

\* C5: in every reachable state, a /mute, /unmute, /msgu or /restart message of
\* a user who is not in ADMIN_ID is answered by the rejection of the command's
\* handler, and muted_users, board_data and user_states are after it what they
\* were before it, whatever conversation state the sender is in.
C5_NonAdminChangesNothing ==
    \A m \in Messages :
        (m.content_type = "text" /\ CommandOf(m) \in AdminCommands
         /\ m.user \notin ADMIN_ID) =>
            \A tx \in SUBSET ApiCalls(Handler(m)), fs \in Writes(Handler(m)) :
                LET r == Dispatch(m, tx, fs)
                IN  /\ Handler(m) = CommandHandler(CommandOf(m))
                    /\ r.outcome = "not_admin"
                    /\ r.mu = muted_users
                    /\ r.bd = board_data
                    /\ r.us = user_states

\* the subject and the text of an add, as the user typed them
TypedSubject(m) ==
    IF Handler(m) = "set_homework" THEN ParseSet(Strip(m.text)).subject
    ELSE user_states[m.user].subject

TypedText(m) ==
    IF Handler(m) = "set_homework" THEN ParseSet(Strip(m.text)).value
    ELSE Strip(m.text)

\* C6: in every reachable state, every key of board_data is its own lower-case
\* form and no two entries have the same key, so a lookup by the lower-cased
\* name finds the same entry for every letter case of the name; and after an
\* add of text T for subject S (by /set or by the guided flow, text messages)
\* the dict holds under lower(S) the entry whose text is T with the note of
\* who added it and when, the button of that key is offered, and nothing is
\* held under S in another letter case.
C6_AddThenGet ==
    /\ \A i \in 1..Len(board_data) : board_data[i].key = Lower(board_data[i].key)
    /\ \A i, j \in 1..Len(board_data) : board_data[i].key = board_data[j].key => i = j
    /\ \A m \in Messages :
           (/\ Handler(m) \in {"set_homework", "handle_homework_details_input"}
            /\ m.content_type = "text") =>
               LET key == Lower(TypedSubject(m))
                   entry == [text |-> FullValueText(TypedText(m), m.date, m.user),
                             photo_id |-> "None"]
               IN  \A tx \in SUBSET ApiCalls(Handler(m)), fs \in Writes(Handler(m)) :
                       LET r == Dispatch(m, tx, fs)
                       IN  r.outcome \in {"saved", "saved_unconfirmed", "committed",
                                          "committed_unconfirmed"} =>
                               /\ HasKey(r.bd, key)
                               /\ Lower(key) = key
                               /\ Entry(r.bd, key) = entry
                               /\ (<<"get:">> \o key) \in generate_subject_buttons(r.bd)
                               /\ (TypedSubject(m) # key => ~HasKey(r.bd, TypedSubject(m)))
                               /\ \A i, j \in 1..Len(r.bd) :
                                      r.bd[i].key = r.bd[j].key => i = j

\* C6 happens: "/set M p" was stored under "m" and the button of "m" was then
\* pressed and answered with the entry
C6_Witness ==
    /\ last.handler = "handle_callback"
    /\ last.outcome = "shown"
    /\ HasKey(board_data, <<"m">>)
    /\ StartsWith(Entry(board_data, <<"m">>).text, <<"p">>)

\* C7: in every reachable state, a /del that reports "not found" leaves
\* board_data and its file as they were and makes no save; a /del that reports
\* a deletion removes exactly one key, leaves every other entry and the order
\* of the entries as they were, and saves (the file holds the new dict when the
\* write goes through); and an accepted "/del M" reports a deletion exactly
\* when "m" is a key, after which "m" is no key.
C7_DeleteRemovesExactlyOneKey ==
    \A m \in Messages :
        Handler(m) = "delete_board" =>
            \A tx \in SUBSET ApiCalls("delete_board"), fs \in Writes("delete_board") :
                LET r == Dispatch(m, tx, fs)
                    gone == Keys(board_data) \ Keys(r.bd)
                IN  /\ r.outcome = "not_found" =>
                           r.bd = board_data /\ r.df = data_file /\ r.save = "none"
                    /\ r.outcome = "deleted" =>
                           /\ Cardinality(gone) = 1
                           /\ r.bd = SelectSeq(board_data, LAMBDA e : e.key \notin gone)
                           /\ r.save = fs
                           /\ (fs = "ok" => r.df = DumpBoard(r.bd))
                    /\ (/\ m.text = <<"/", "d", "e", "l", " ", "M">>
                        /\ m.user \notin muted_users
                        /\ ~OutsideChat(m.chat)) =>
                           /\ r.outcome = IF HasKey(board_data, <<"m">>) THEN "deleted"
                                          ELSE "not_found"
                           /\ ~HasKey(r.bd, <<"m">>)

\* C7 happens: a /del removed a key and left another entry in the dict
C7_Witness ==
    /\ last.handler = "delete_board"
    /\ last.outcome = "deleted"
    /\ Len(board_data) >= 1
    /\ ~HasKey(board_data, <<"m">>)

\* C8: in every reachable state, "/mute 1001" of the administrator leaves 1001
\* in muted_users and changes nobody else's membership, and changes nothing
\* when 1001 is in it already; "/unmute 1001" of the administrator leaves 1001
\* out of muted_users and changes nobody else's membership, and when 1001 is
\* not in it changes nothing and still reports success.
C8_MuteUnmuteIdempotent ==
    \A m \in Messages :
        /\ (/\ Handler(m) = "mute_user"
            /\ m.user \in ADMIN_ID
            /\ m.text = <<"/", "m", "u", "t", "e", " ", "1", "0", "0", "1">>) =>
               \A tx \in SUBSET ApiCalls("mute_user"), fs \in Writes("mute_user") :
                   LET r == Dispatch(m, tx, fs)
                   IN  /\ r.outcome = "mute_done"
                       /\ "1001" \in r.mu
                       /\ r.mu \ {"1001"} = muted_users \ {"1001"}
                       /\ ("1001" \in muted_users => r.mu = muted_users)
        /\ (/\ Handler(m) = "unmute_user"
            /\ m.user \in ADMIN_ID
            /\ m.text = <<"/", "u", "n", "m", "u", "t", "e", " ", "1", "0", "0", "1">>) =>
               \A tx \in SUBSET ApiCalls("unmute_user"), fs \in Writes("unmute_user") :
                   LET r == Dispatch(m, tx, fs)
                   IN  /\ r.outcome = "unmute_done"
                       /\ "1001" \notin r.mu
                       /\ r.mu \ {"1001"} = muted_users \ {"1001"}
                       /\ ("1001" \notin muted_users => r.mu = muted_users)

\* C8 happens: 1001 was unmuted while 1002 was muted, and 1002 still is
C8_Witness ==
    /\ last.handler = "unmute_user"
    /\ last.outcome = "unmute_done"
    /\ muted_users = {"1002"}

\* s is empty or holds whitespace only
Blank(s) == \A i \in 1..Len(s) : s[i] \in Whitespace

\* the event may write: its chat is allowed and its user is not muted
Authorized(e) == ~OutsideChat(e.chat) /\ e.user \notin muted_users

\* C9: in every reachable state, for a user in an allowed chat who is not
\* muted: the "set_info" button puts the user in waiting_for_subject; a
\* non-blank text S in waiting_for_subject puts the user in
\* waiting_for_homework_details with subject S trimmed and leaves board_data
\* as it was; and a non-blank text D in waiting_for_homework_details stores an
\* entry under the pending subject lower-cased whose text starts with D
\* trimmed, leaves every other entry as it was and leaves the user with no
\* conversation state.
C9_GuidedFlowCommits ==
    /\ \A call \in Calls :
           (call.data = <<"set_info">> /\ Authorized(call)) =>
               \A tx \in SUBSET {"send_message"} :
                   LET r == callback_set_info(call, tx)
                   IN  /\ StateOf(r.us, call.user) = "waiting_for_subject"
                       /\ r.bd = board_data
    /\ \A m \in Messages :
           (/\ m.content_type = "text"
            /\ ~Blank(m.text)
            /\ Authorized(m)
            /\ InFlow(m.user)
            /\ Handler(m) \in {"handle_subject_input", "handle_homework_details_input"}) =>
               \A tx \in SUBSET ApiCalls(Handler(m)), fs \in Writes(Handler(m)) :
                   LET r == Dispatch(m, tx, fs)
                       key == Lower(user_states[m.user].subject)
                   IN  IF Handler(m) = "handle_subject_input"
                       THEN /\ StateOf(r.us, m.user) = "waiting_for_homework_details"
                            /\ r.us[m.user].subject = Strip(m.text)
                            /\ r.bd = board_data
                       ELSE /\ HasKey(r.bd, key)
                            /\ StartsWith(Entry(r.bd, key).text, Strip(m.text))
                            /\ SelectSeq(r.bd, LAMBDA e : e.key # key)
                                   = SelectSeq(board_data, LAMBDA e : e.key # key)
                            /\ StateOf(r.us, m.user) = "None"

\* C10: in every reachable state, for a user in an allowed chat who is not
\* muted: a blank text in waiting_for_subject leaves user_states as it was
\* (the user in waiting_for_subject, no subject recorded), and a blank text in
\* waiting_for_homework_details leaves user_states as it was (the same pending
\* subject); both leave board_data and its file as they were.
C10_ValidationErrorChangesNothing ==
    \A m \in Messages :
        (/\ m.content_type = "text"
         /\ Blank(m.text)
         /\ Authorized(m)
         /\ Handler(m) \in {"handle_subject_input", "handle_homework_details_input"}
         /\ (Handler(m) = "handle_homework_details_input"
                => user_states[m.user].subject # <<>>)) =>
            \A tx \in SUBSET ApiCalls(Handler(m)), fs \in Writes(Handler(m)) :
                LET r == Dispatch(m, tx, fs)
                IN  /\ r.outcome = IF Handler(m) = "handle_subject_input"
                                   THEN "empty_subject" ELSE "empty_details"
                    /\ r.us = user_states
                    /\ (Handler(m) = "handle_subject_input" =>
                            /\ r.us[m.user].state = "waiting_for_subject"
                            /\ r.us[m.user].subject = <<>>)
                    /\ r.bd = board_data
                    /\ r.df = data_file
                    /\ r.save = "none"

\* C10 happens: a blank text arrived as the details of a pending subject and
\* the user is still asked for the details of that subject
C10_Witness ==
    /\ last.handler = "handle_homework_details_input"
    /\ last.outcome = "empty_details"
    /\ \E u \in DOMAIN user_states :
           /\ user_states[u].state = "waiting_for_homework_details"
           /\ user_states[u].subject # <<>>

\* C11: in every reachable state, a text or photo message of a user whose
\* conversation state is waiting_for_subject or waiting_for_homework_details,
\* sent from a chat outside the allowed chats or by a user in muted_users,
\* ends in the access-denied branch of a handler, leaves the user with no
\* conversation state and leaves board_data as it was, whatever the message
\* holds and whichever Telegram call fails.
C11_AuthorizationRecheckedInFlow ==
    \A m \in Messages :
        (/\ m.content_type \in {"text", "photo"}
         /\ InFlow(m.user)
         /\ (OutsideChat(m.chat) \/ m.user \in muted_users)) =>
            \A tx \in SUBSET ApiCalls(Handler(m)), fs \in Writes(Handler(m)) :
                LET r == Dispatch(m, tx, fs)
                IN  /\ r.outcome \in {"wrong_chat", "muted"}
                    /\ StateOf(r.us, m.user) = "None"
                    /\ r.bd = board_data

\* C12: in every reachable state, a message that is answered with an
\* authorization error (the chat is not allowed, the user is muted, or the
\* user is no administrator and the command is an administrator's) leaves its
\* sender with no conversation state, whichever Telegram call fails.
C12_AuthorizationErrorEndsFlow ==
    \A m \in Messages :
        \A tx \in SUBSET ApiCalls(Handler(m)), fs \in Writes(Handler(m)) :
            LET r == Dispatch(m, tx, fs)
            IN  r.outcome \in {"wrong_chat", "muted", "not_admin"} =>
                    StateOf(r.us, m.user) = "None"

\* the Telegram calls of handle_callback after the press has been answered
\* (line 264)
CallbackSends == {"send_message", "send_photo"}

\* the deletion that removes the prompt recorded for the user: its message id
\* in the chat it was sent to
RecordedPrompt(u) ==
    IF u \in DOMAIN user_states /\ user_states[u].bot_prompt_message_id # 0
    THEN {[chat |-> user_states[u].prompt_chat,
           message_id |-> user_states[u].bot_prompt_message_id]}
    ELSE {}

\* C13: in every reachable state, a press of the "cancel_add_hw" button by a
\* user in waiting_for_subject or waiting_for_homework_details removes that
\* user's conversation state in the same handler run, asks for the deletion of
\* the prompt recorded in it, sends the acknowledgment when the send goes
\* through, and leaves board_data, its file and the other users' states as
\* they were; a press by a user with no state changes nothing; and a message
\* of a user with no state is never given to a handler of the guided flow, so
\* only a /set of that user can store an entry until a new flow is started
\* (a /restart loads the dict from its file and stores nothing new).
C13_CancelEndsFlow ==
    /\ \A call \in Calls :
           call.data = <<"cancel_add_hw">> =>
               \A tx \in SUBSET CallbackSends :
                   LET r == handle_callback(call, tx)
                   IN  IF InFlow(call.user)
                       THEN /\ r.us = DelState(user_states, call.user)
                            /\ r.prompt_deletes = RecordedPrompt(call.user)
                            /\ ("send_message" \notin tx => r.outcome = "cancelled")
                            /\ r.bd = board_data
                            /\ r.df = data_file
                       ELSE /\ r.us = user_states
                            /\ r.prompt_deletes = {}
                            /\ r.bd = board_data
                            /\ r.df = data_file
                            /\ r.mu = muted_users
    /\ \A m \in Messages :
           ~InFlow(m.user) =>
               /\ Handler(m) \notin {"handle_subject_input", "handle_homework_details_input"}
               /\ Handler(m) \notin {"set_homework", "restart_bot"} =>
                      \A tx \in SUBSET ApiCalls(Handler(m)), fs \in Writes(Handler(m)) :
                          Keys(Dispatch(m, tx, fs).bd) \subseteq Keys(board_data)

\* C14: in every reachable state, a press of the "set_info" button by a user
\* who has a conversation state leaves that user in waiting_for_subject with
\* no subject, asks for the deletion of the prompt recorded in the old state,
\* and leaves the other users' states as they were.
C14_OneFlowPerUser ==
    \A call \in Calls :
        (call.data = <<"set_info">> /\ InFlow(call.user)) =>
            \A tx \in SUBSET CallbackSends :
                LET r == handle_callback(call, tx)
                IN  /\ StateOf(r.us, call.user) = "waiting_for_subject"
                    /\ r.us[call.user].subject = <<>>
                    /\ r.prompt_deletes = RecordedPrompt(call.user)
                    /\ DelState(r.us, call.user) = DelState(user_states, call.user)

\* the handlers that change board_data by an add or a delete
MutatingOutcomes ==
    {"saved", "saved_unconfirmed", "committed", "committed_unconfirmed", "deleted"}

\* C15: in every reachable state, a message that changes board_data (an add
\* by /set or by the guided flow, a delete by /del) makes the handler change
\* the dict, then call save_data on the whole dict, then send the
\* confirmation, in this order: the save is attempted whether or not the
\* confirmation goes through, the file holds the whole new dict when the write
\* goes through, and no handler sends a confirmation or changes the dict
\* without the save before it.
C15_PersistBeforeAcknowledge ==
    \A m \in Messages :
        Handler(m) # "restart_bot" =>
            \A tx \in SUBSET ApiCalls(Handler(m)), fs \in Writes(Handler(m)) :
                LET r == Dispatch(m, tx, fs)
                IN  /\ (r.bd # board_data \/ r.outcome \in MutatingOutcomes) =>
                           /\ r.outcome \in MutatingOutcomes
                           /\ Len(r.steps) = 3
                           /\ r.steps[1] \in {"put", "del"}
                           /\ r.steps[2] = "save_data"
                           /\ r.steps[3] \in {"confirmation", "confirmation_raised"}
                           /\ r.save = fs
                           /\ (fs = "ok" => r.df = DumpBoard(r.bd))
                    /\ \A i \in 1..Len(r.steps) :
                           r.steps[i] = "confirmation" =>
                               \E j \in 1..(i - 1) : r.steps[j] = "save_data"
                    /\ r.outcome \notin MutatingOutcomes =>
                           r.steps = <<>> /\ r.df = data_file

\* C15 happens: an entry was added while another was there, the confirmation
\* was sent and the file holds both entries
C15_Witness ==
    /\ last.handler \in {"set_homework", "handle_homework_details_input"}
    /\ last.outcome \in {"saved", "committed"}
    /\ Len(board_data) = 2
    /\ data_file = DumpBoard(board_data)

\* the handlers that save a file
SavingHandlers ==
    {"set_homework", "handle_homework_details_input", "delete_board",
     "mute_user", "unmute_user"}

\* C16: in every reachable state, a handler whose write of board_data.json or
\* muted_users.json fails (open raises, or the dump raises part-way) ends as
\* it ends when the write goes through: the same branch and confirmation, no
\* exception of the write leaves it, and board_data, muted_users and
\* user_states are what they are after the successful write; only the file
\* differs, and it is what the failed write left.  Every later lookup answers
\* from board_data, whatever the file holds.
C16_WriteFailureKeepsMemory ==
    /\ \A m \in Messages :
           Handler(m) \in SavingHandlers =>
               \A tx \in SUBSET ApiCalls(Handler(m)) :
                   LET ok == Dispatch(m, tx, "ok")
                   IN  \A fs \in FsOutcomes \ {"ok"} :
                           LET r == Dispatch(m, tx, fs)
                           IN  /\ r.outcome = ok.outcome
                               /\ r.raised = ok.raised
                               /\ r.steps = ok.steps
                               /\ r.bd = ok.bd
                               /\ r.mu = ok.mu
                               /\ r.us = ok.us
                               /\ ok.save = "ok" =>
                                      /\ r.save = fs
                                      /\ r.df # ok.df \/ r.mf # ok.mf \/ fs = "open_fails"
                                      /\ fs = "open_fails" =>
                                             r.df = data_file /\ r.mf = muted_file
    /\ \A call \in Calls :
           StartsWith(call.data, <<"get:">>) =>
               LET r == handle_callback(call, {})
               IN  /\ r.outcome = IF HasKey(board_data, Tail(call.data)) THEN "shown"
                                  ELSE "get_not_found"
                   /\ r.bd = board_data

\* C16 happens: the write of an add failed part-way, the handler confirmed
\* the add, the dict has the entry and the file does not
C16_Witness ==
    /\ last.handler \in {"set_homework", "handle_homework_details_input"}
    /\ last.outcome \in {"saved", "committed"}
    /\ board_data # <<>>
    /\ data_file.exists
    /\ ~data_file.valid

\* the handlers that call save_data
BoardSavingHandlers == {"set_homework", "handle_homework_details_input", "delete_board"}

\* C17: in every reachable state, whatever becomes of the write
\* of a handler that saves the board, the load of board_data.json ends and
\* gives either what the file gave before the handler or the whole board as
\* the handler leaves it, never an empty or cut board in their place.
C17_NoPartialWriteVisible ==
    \A m \in Messages :
        Handler(m) \in BoardSavingHandlers =>
            \A tx \in SUBSET ApiCalls(Handler(m)), fs \in FsOutcomes, is_utf8 \in BOOLEAN :
                LET r == Dispatch(m, tx, fs)
                    f == ReadFile(r.df, is_utf8)
                IN  /\ BoardLoads(f)
                    /\ LoadBoard(f) \in {LoadBoard(data_file), r.bd}

\* C18: in every reachable state, dumping board_data and loading
\* the dump gives board_data back, key for key and in the same order; when
\* the file is the dump of board_data, a restart starts with that board; and
\* when the file is absent or cannot be read as a JSON document, the start-up
\* ends and the board is empty.
C18_RoundTripAndEmptyOnUnreadable ==
    /\ LoadBoard(DumpBoard(board_data)) = board_data
    /\ \A is_utf8 \in BOOLEAN :
           LET r == Restarted("restarted", is_utf8)
           IN  /\ data_file = DumpBoard(board_data) =>
                      r.outcome = "restarted" /\ r.bd = board_data
               /\ (~data_file.exists \/ ~data_file.valid) =>
                      r.outcome = "restarted" /\ r.bd = <<>>

\* s has no upper-case letter, no whitespace at either end, and is not ""
NormalKey(s) ==
    /\ s # <<>>
    /\ \A i \in 1..Len(s) : s[i] \notin UpperLetters
    /\ s[1] \notin Whitespace
    /\ s[Len(s)] \notin Whitespace

\* C19: in every reachable state (the board starts empty and
\* changes by /set, /del and the guided flow, with subjects typed in upper
\* case and with blanks around them), every key of board_data is lower-case,
\* has no whitespace at its ends and is not empty.
C19_KeysNormalized ==
    \A k \in Keys(board_data) : NormalKey(k)

\* C19 happens: the guided flow has committed an entry, and its key is the
\* lower-case, trimmed form of what was typed
C19_Witness ==
    /\ last.handler = "handle_homework_details_input"
    /\ last.outcome = "committed"
    /\ Keys(board_data) = {<<"m">>}

\* C20 (SpecWorkers): in every reachable state, while a call of
\* a handler is begun and not ended, no other handler has run: user_states
\* and board_data are what the call read when it began.
C20_HandlersDoNotOverlap ==
    worker_pool # <<>> =>
        /\ user_states = worker_pool[1].user_states
        /\ board_data = worker_pool[1].board_data

\* C21: in every reachable state, whichever requests to Telegram fail and
\* whatever becomes of the write, no exception leaves a handler: the handler
\* given a message, and handle_callback given a press, end by returning.
C21_NoExceptionLeavesAHandler ==
    /\ \A m \in Messages :
           \A tx \in SUBSET ApiCalls(Handler(m)), fs \in Writes(Handler(m)) :
               ~Dispatch(m, tx, fs).raised
    /\ \A call \in Calls :
           \A tx \in SUBSET ApiCalls("handle_callback") :
               ~handle_callback(call, tx).raised

\* s[:4]
Prefix4(s) == Slice(s, 0, 4)

\* no key of the board other than k starts with the first 4 characters of k
OnlyKeyWithPrefix(bd, k) ==
    \A other \in Keys(bd) : Prefix4(other) = Prefix4(k) => other = k

\* no alias of any key is x, x without spaces or the first 4 characters of either
NoAliasMatches(bd, x) ==
    LET alias_map == build_subject_alias_map(bd)
    IN  \A i \in 1..Len(alias_map) :
            alias_map[i][1] \notin {x, RemoveSpaces(x), Prefix4(x), Prefix4(RemoveSpaces(x))}

\* C22 (SpecResolver): for every board, with the keys "matematika" and
\* "anglijskij" and no other the question "chto zadali po matematike" gives
\* "matematika", "chto po angl" gives "anglijskij" and "chto zadali po fizike"
\* gives nothing; and on every board a question "chto zadali po X" or
\* "chto po X" gives the key K when X and K have the same first 4 characters
\* and no other key has them, and gives nothing when no alias of any key is X
\* or the first 4 characters of X.
C22_ResolverByPrefix ==
    /\ Keys(board_data) = {MATEMATIKA, ANGLIJSKIJ} =>
           /\ find_subject_in_message(ChtoZadaliPo(MATEMATIKE), board_data) = MATEMATIKA
           /\ find_subject_in_message(ChtoPo(ANGL), board_data) = ANGLIJSKIJ
           /\ find_subject_in_message(ChtoZadaliPo(FIZIKE), board_data) = <<>>
    /\ \A x \in Asked :
           \A text \in {ChtoZadaliPo(x), ChtoPo(x)} :
               /\ \A k \in Keys(board_data) :
                      (Prefix4(x) = Prefix4(k) /\ OnlyKeyWithPrefix(board_data, k)) =>
                          find_subject_in_message(text, board_data) = k
               /\ NoAliasMatches(board_data, x) =>
                      find_subject_in_message(text, board_data) = <<>>

\* the requests that send the attachment
PhotoCalls == {"send_photo", "send_photo:pm", "send_photo:chat"}

\* what a lookup of an entry with a photo is to send when only sends of the
\* photo fail: to each destination the photo, or the text with the note when
\* the photo did not go out there; in a group both copies and the deletion of
\* the copy in the group
LookupSends(private, tx) ==
    LET copy(dest) == [to |-> dest,
                       what |-> IF Fails(tx, "send_photo", dest) THEN "text_with_note"
                                ELSE "photo"]
    IN  IF private THEN <<copy("pm")>>
        ELSE <<copy("pm"), copy("chat"), [to |-> "chat", what |-> "delete_message_with_delay"]>>

\* C23 (SpecLookup): in every reachable state, a press of a subject button or
\* a question (a text that does not begin with "/") that finds an entry with a
\* photo, with any of the sends of the
\* photo failing and every send of a text going through, sends to each
\* destination the photo or, where the photo failed, the text with the note;
\* from a group both the copy to the user and the copy to the group are sent
\* and the deletion of the group's copy is scheduled; the deletion of the
\* keyboard or of the question follows, the lookup does not end in its error
\* branch and changes nothing.
C23_AttachmentFailureFallsBackToText ==
    /\ \A call \in Calls :
           (/\ StartsWith(call.data, <<"get:">>)
            /\ HasKey(board_data, Tail(call.data))
            /\ Entry(board_data, Tail(call.data)).photo_id # "None") =>
               \A tx \in SUBSET PhotoCalls :
                   LET r == handle_callback(call, tx)
                       private == call.chat = call.user
                   IN  /\ r.outcome = IF \E i \in 1..Len(r.sends) :
                                             r.sends[i].what = "text_with_note"
                                      THEN "shown_as_text" ELSE "shown"
                       /\ r.sends = LookupSends(private, tx)
                                    \o (IF private THEN <<>>
                                        ELSE <<[to |-> "chat", what |-> "delete_keyboard"]>>)
                       /\ ~r.raised
                       /\ r.bd = board_data /\ r.us = user_states /\ r.mu = muted_users
    /\ \A m \in Messages :
           (/\ Handler(m) = "handle_general_queries"
            /\ ~StartsWith(Strip(m.text), <<"/">>)
            /\ find_subject_in_message(Strip(m.text), board_data) # <<>>
            /\ Entry(board_data,
                     find_subject_in_message(Strip(m.text), board_data)).photo_id # "None") =>
               \A tx \in SUBSET PhotoCalls :
                   LET r == handle_general_queries(m, tx)
                   IN  /\ r.outcome = IF \E i \in 1..Len(r.sends) :
                                             r.sends[i].what = "text_with_note"
                                      THEN "answered_as_text" ELSE "answered"
                       /\ r.sends = LookupSends(m.chat = m.user, tx)
                                    \o <<[to |-> "chat", what |-> "delete_user_message"]>>
                       /\ ~r.raised
                       /\ r.bd = board_data /\ r.us = user_states /\ r.mu = muted_users

\* C23 happens: the board has an entry with a photo and a lookup of it went
\* out as text after the photo failed
C23_Witness ==
    /\ last.outcome \in {"shown_as_text", "answered_as_text"}
    /\ \E i \in 1..Len(board_data) : board_data[i].photo_id # "None"

\* C24 (SpecPolling): the loop is never left; a sleep it begins is one of 10,
\* 30 or 60 seconds; and whenever bot.polling has raised and the loop sleeps,
\* bot.polling is called again later.
C24_PollingResumes ==
    /\ [](main_loop.pc # "exited")
    /\ [](main_loop.pc = "sleeping" => main_loop.seconds \in 0..60)
    /\ [][main_loop.pc = "polling" /\ main_loop'.pc # "polling" =>
              main_loop'.pc = "sleeping" /\ main_loop'.seconds \in {10, 30, 60}]_vars
    /\ (main_loop.pc = "sleeping" ~> main_loop.pc = "polling")

\* C24 happens: bot.polling raised, the loop slept, and it is in bot.polling again
C24_Witness ==
    /\ main_loop.pc = "polling"
    /\ main_loop.failures > 0

\* the first pattern of the list that matches the text, 0 when none does
FirstMatching(text_norm) ==
    LET matching == {k \in 1..Len(patterns) : LastGroup(patterns[k], text_norm) # <<>>}
    IN  IF matching = {} THEN 0
        ELSE CHOOSE k \in matching : \A j \in matching : k <= j

\* what the candidates of the k-th pattern give: the key found, <<>> if none
FoundBy(bd, text_norm, k) ==
    LET subject_block == Strip(LastGroup(patterns[k], text_norm))
    IN  IF subject_block = <<>> THEN <<>>
        ELSE TryCandidates(build_subject_alias_map(bd), Candidates(subject_block), 1)

\* C25 as stated (SpecResolver): for every board and question, the resolver
\* gives what the candidates of the first pattern that matches the text give,
\* and nothing when they give nothing or no pattern matches.
C25_OnlyFirstMatchingPattern ==
    \A text \in Queries :
        LET text_norm == Strip(Lower(text))
            k == FirstMatching(text_norm)
        IN  find_subject_in_message(text, board_data) =
                IF k = 0 THEN <<>> ELSE FoundBy(board_data, text_norm, k)

\* the patterns that match the text and whose candidates give a key
Resolving(bd, text_norm) ==
    {k \in 1..Len(patterns) : FoundBy(bd, text_norm, k) # <<>>}

\* C25 as amended (SpecResolver): for every board and question, the resolver
\* tries the patterns in the order of the list and gives what the candidates
\* of the first pattern give whose candidates give a key; it gives nothing
\* only when no pattern that matches has a candidate that gives a key.
C25_FirstResolvingPattern ==
    \A text \in Queries :
        LET text_norm == Strip(Lower(text))
            resolving == Resolving(board_data, text_norm)
        IN  find_subject_in_message(text, board_data) =
                IF resolving = {} THEN <<>>
                ELSE FoundBy(board_data, text_norm,
                             CHOOSE k \in resolving : \A j \in resolving : k <= j)

\* C25 happens: the resolver was asked "chto zadali po matematike" with the
\* key "matematika" on the board; the first pattern matches and its
\* candidates give nothing, and the key was found by a later pattern
C25_Witness ==
    /\ query # <<>>
    /\ query[1].text = ChtoZadaliPo(MATEMATIKE)
    /\ query[1].subject_key = MATEMATIKA
    /\ FirstMatching(query[1].text) = 1
    /\ FoundBy(board_data, query[1].text, 1) = <<>>

\* the aliases the claim gives a key, bare being the key without its blanks:
\* the key, the first 4 characters of bare when they are 2 or more, and bare
\* when it is not the key
ClaimedAliases(key, bare) ==
    {key}
        \cup (IF Len(Prefix4(bare)) >= 2 THEN {Prefix4(bare)} ELSE {})
        \cup (IF bare # key THEN {bare} ELSE {})

\* the key without its whitespace characters, and without its space characters
WithoutWhitespace(key) == SelectSeq(key, LAMBDA c : c \notin Whitespace)
WithoutSpaceCharacters(key) == SelectSeq(key, LAMBDA c : c # " ")

\* the aliases alias_map has
AliasDomain(alias_map) == {alias_map[i][1] : i \in 1..Len(alias_map)}

\* the last key of the board, in its order, among the keys in owners
LastKeyAmong(bd, owners) ==
    bd[CHOOSE i \in 1..Len(bd) :
           /\ bd[i].key \in owners
           /\ \A j \in 1..Len(bd) : bd[j].key \in owners => j <= i].key

\* C26 as stated (SpecResolver): for every board, the aliases of the map are
\* those of its keys, each key giving itself, the first 4 characters of itself
\* without whitespace (when 2 or more) and itself without whitespace (when
\* that is not the key); and each alias maps to the last key of the board
\* that gives it.
C26_AliasMapWithoutWhitespace ==
    LET alias_map == build_subject_alias_map(board_data)
        claimed(k) == ClaimedAliases(k, WithoutWhitespace(k))
    IN  /\ AliasDomain(alias_map) = UNION {claimed(k) : k \in Keys(board_data)}
        /\ \A a \in AliasDomain(alias_map) :
               AliasValue(alias_map, a) =
                   LastKeyAmong(board_data, {k \in Keys(board_data) : a \in claimed(k)})

\* C26 as amended (SpecResolver): the same with the space character in place
\* of whitespace: a tab or a line break inside a key stays in its aliases.
C26_AliasMapWithoutSpaces ==
    LET alias_map == build_subject_alias_map(board_data)
        claimed(k) == ClaimedAliases(k, WithoutSpaceCharacters(k))
    IN  /\ AliasDomain(alias_map) = UNION {claimed(k) : k \in Keys(board_data)}
        /\ \A a \in AliasDomain(alias_map) :
               AliasValue(alias_map, a) =
                   LastKeyAmong(board_data, {k \in Keys(board_data) : a \in claimed(k)})

\* C26 happens: the map was built for a board with a key that has a line
\* break inside and a key that has a space inside; the line break is in the
\* 4-character alias of the first, the space is not in that of the second
C26_Witness ==
    /\ query # <<>>
    /\ Len(board_data) = 2
    /\ board_data[1].key = IN_NL_YAZ
    /\ board_data[2].key = IN_YAZ
    /\ <<"c:i", "c:n", "\n", "c:ya">> \in AliasDomain(query[1].alias_map)
    /\ <<"c:i", "c:n", "c:ya", "c:z">> \in AliasDomain(query[1].alias_map)
    /\ AliasValue(query[1].alias_map, <<"c:i", "c:n", "c:ya", "c:z">>) = IN_YAZ

\* the two handlers of the guided flow
FlowHandlers == {"handle_subject_input", "handle_homework_details_input"}

\* the branches of handle_general_queries past the resolver
QueryOutcomes == {"key_gone", "answered", "answered_as_text", "query_error"}

\* the message is not answered as a question about a subject, whatever fails
NotAnsweredAsQuery(m) ==
    \A tx \in SUBSET ApiCalls(Handler(m)), fs \in Writes(Handler(m)) :
        LET r == Dispatch(m, tx, fs)
        IN  r.outcome \notin QueryOutcomes /\ r.sends = <<>>

\* C27 as stated: in every reachable state, every text message is given to a
\* handler; a text of a user who has a conversation state is given to a
\* handler of the guided flow; and a text that starts with "/" is not
\* answered as a question about a subject.
C27_TextOfFlowUserGoesToFlow ==
    \A m \in Messages :
        m.content_type = "text" =>
            /\ Handler(m) # "None"
            /\ StateOf(user_states, m.user) # "None" => Handler(m) \in FlowHandlers
            /\ StartsWith(Strip(m.text), <<"/">>) => NotAnsweredAsQuery(m)

\* C27 as amended: in every reachable state, every text message is given to
\* one handler; a text of a user who has a conversation state is given to a
\* handler of the guided flow, or to cmd_msgu when its command is /msgu, and
\* is not answered as a question about a subject; and a text that starts with
\* "/" is not answered as a question about a subject.
C27_OneHandlerPerText ==
    \A m \in Messages :
        m.content_type = "text" =>
            /\ Handler(m) # "None"
            /\ StateOf(user_states, m.user) # "None" =>
                   /\ Handler(m) \in FlowHandlers \cup {"cmd_msgu"}
                   /\ Handler(m) = "cmd_msgu" <=> CommandOf(m) = <<"m", "s", "g", "u">>
                   /\ NotAnsweredAsQuery(m)
            /\ StartsWith(Strip(m.text), <<"/">>) => NotAnsweredAsQuery(m)

\* C27 happens: the board has the key "m" and the question about it that
\* starts with "/" was given to handle_general_queries, which left it alone
C27_Witness ==
    /\ last.handler = "handle_general_queries"
    /\ last.outcome = "ignored_command"
    /\ HasKey(board_data, <<"m">>)

\* C28 (SpecTimers): in every reachable state, every deletion that was
\* scheduled is in its sleep or has made exactly one attempt and ended, with
\* no exception left uncaught; none is lost before its attempt.
C28_EveryDeletionAttemptedOnce ==
    \A i \in 1..Len(timers) :
        /\ timers[i].pc \in {"sleeping", "done"}
        /\ timers[i].pc = "sleeping" => timers[i].attempts = 0
        /\ timers[i].pc = "done" => timers[i].attempts = 1
        /\ ~timers[i].raised

\* C29 (SpecBatch): in every reachable state, a user whose state is
\* waiting_for_homework_details has a subject that is not blank, a user whose
\* state is waiting_for_subject has none, and the call of
\* handle_homework_details_input that ended last did not take the branch of
\* lines 539-546 ("the subject was not specified").
C29_DetailsAlwaysHaveSubject ==
    /\ \A u \in DOMAIN user_states :
           /\ user_states[u].state = "waiting_for_homework_details" =>
                  user_states[u].subject # <<>>
           /\ user_states[u].state = "waiting_for_subject" =>
                  user_states[u].subject = <<>>
    /\ last.outcome # "no_subject"

\* C30: in every reachable state, for every message that
\* handle_homework_details_input accepts (allowed chat, user not muted, a
\* pending subject, details or a photo), whichever requests to Telegram fail
\* and whatever becomes of the write: after the handler the user has no
\* conversation state exactly when the entry was put in board_data and saved.
C30_StateGoneIffCommitted ==
    \A m \in Messages :
        (/\ Handler(m) = "handle_homework_details_input"
         /\ Authorized(m)) =>
            \A tx \in SUBSET ApiCalls(Handler(m)), fs \in Writes(Handler(m)) :
                LET r == Dispatch(m, tx, fs)
                IN  r.outcome \notin {"empty_details", "no_subject"} =>
                        (StateOf(r.us, m.user) = "None" <=> r.save # "none")

\* C31: in every reachable state, whatever message or press comes next, every
\* deletion the handler asks for of the prompt recorded in the user's state is
\* asked for in the chat that prompt was sent to.
C31_PromptCleanupInPromptChat ==
    /\ \A m \in Messages :
           \A tx \in SUBSET ApiCalls(Handler(m)), fs \in Writes(Handler(m)) :
               \A d \in Dispatch(m, tx, fs).prompt_deletes :
                   d.chat = user_states[m.user].prompt_chat
    /\ \A call \in Calls :
           \A tx \in SUBSET ApiCalls("handle_callback") :
               \A d \in handle_callback(call, tx).prompt_deletes :
                   d.chat = user_states[call.user].prompt_chat

\* C32: in every reachable state, a message or a press of one user (a /restart
\* aside) leaves the conversation state of every other user as it was; and a
\* press of "cancel_add_hw" by one user on the prompt recorded in another
\* user's state schedules no deletion of that prompt.
C32_FlowsDoNotInterfere ==
    /\ \A m \in Messages :
           Handler(m) # "restart_bot" =>
               \A tx \in SUBSET ApiCalls(Handler(m)), fs \in Writes(Handler(m)) :
                   DelState(Dispatch(m, tx, fs).us, m.user) = DelState(user_states, m.user)
    /\ \A call \in Calls :
           \A tx \in SUBSET ApiCalls("handle_callback") :
               /\ DelState(handle_callback(call, tx).us, call.user)
                      = DelState(user_states, call.user)
               /\ call.data = <<"cancel_add_hw">> =>
                      \A A \in DOMAIN user_states \ {call.user} :
                          (/\ user_states[A].bot_prompt_message_id # 0
                           /\ user_states[A].prompt_chat = call.chat) =>
                              RecordedPrompt(A) \cap
                                  callback_cancel_deletes(
                                      call, user_states[A].bot_prompt_message_id, tx) = {}

C34_ExactKeyResolvesToItself ==
    (\A i, j \in 1..Len(board_data) :
         i # j => AliasDomain(AliasesOf(board_data[i].key))
                      \cap AliasDomain(AliasesOf(board_data[j].key)) = {}) =>
        \A K \in Keys(board_data) :
            Strip(LastGroup(patterns[1], ChtoPo(K))) = K =>
                find_subject_in_message(ChtoPo(K), board_data) = K

\* C35: in every reachable state, a press of "list", of a subject button or of
\* "delete_info", a free text given to handle_general_queries and a /start
\* leave board_data, muted_users, user_states and the two files as they were,
\* whether the subject is found or not and whichever requests to Telegram fail.
C35_ReadPathsArePure ==
    /\ \A call \in Calls :
           (call.data \in {<<"list">>, <<"delete_info">>} \/ StartsWith(call.data, <<"get:">>)) =>
               \A tx \in SUBSET ApiCalls("handle_callback") :
                   LET r == handle_callback(call, tx)
                   IN  /\ r.bd = board_data /\ r.mu = muted_users /\ r.us = user_states
                       /\ r.df = data_file /\ r.mf = muted_file
    /\ \A m \in Messages :
           Handler(m) \in {"handle_general_queries", "send_welcome"} =>
               \A tx \in SUBSET ApiCalls(Handler(m)), fs \in Writes(Handler(m)) :
                   LET r == Dispatch(m, tx, fs)
                   IN  /\ r.bd = board_data /\ r.mu = muted_users /\ r.us = user_states
                       /\ r.df = data_file /\ r.mf = muted_file

\* C35 happens: a subject was looked up and shown while the board has an
\* entry and a guided flow is under way
C35_Witness ==
    /\ last.outcome \in {"answered", "shown"}
    /\ board_data # <<>>
    /\ DOMAIN user_states # {}

\* C36: in every reachable state, every user in user_states has a
\* bot_prompt_message_id recorded in the state.
C36_StateHasPrompt ==
    \A u \in DOMAIN user_states : user_states[u].bot_prompt_message_id # 0

====
